---- MODULE Spec2Model ----
(***************************************************************************)
(* A model of mcp-wrapper/mcp_server.js: the stdio JSON-RPC bridge in      *)
(* front of the ASR-GoT HTTP backend.                                      *)
(*                                                                         *)
(* Text is modelled at the level the code works on it.  A byte is a string *)
(* token: an ASCII byte is the one-character string of its character, and  *)
(* a byte from 128 on is "x" and its two hexadecimal digits ("xC3").  A    *)
(* JavaScript string is a sequence of UTF-16 code units, each a string     *)
(* token too: an ASCII character is itself, and a code unit from 128 on is *)
(* "U+" and its four hexadecimal digits ("U+00E9").  The ASCII control     *)
(* characters that TLA+ has no notation for, the grave accent and DEL are  *)
(* named like the code units from 128 on ("U+0008").                       *)
(***************************************************************************)
EXTENDS Integers, Sequences, FiniteSets, TLC

----------------------------------------------------------------------------
(* Characters and bytes *)

\* the characters and bytes the code tells apart
\* (Ascii: the ASCII characters by number; Hex and hex: the hexadecimal
\* digits by value; Escapes: the code unit each escape of a JSON string
\* stands for)
Ch ==
  [DQ |-> "\"", BSL |-> "\\", CR |-> "\r", LF |-> "\n", TAB |-> "\t", FF |-> "\f",
   EAcute |-> "U+00E9", FFFD |-> "U+FFFD", ByteC3 |-> "xC3", ByteA9 |-> "xA9",
   Ascii |->
     <<"U+0000","U+0001","U+0002","U+0003","U+0004","U+0005","U+0006","U+0007",
       "U+0008","\t","\n","U+000B","\f","\r","U+000E","U+000F",
       "U+0010","U+0011","U+0012","U+0013","U+0014","U+0015","U+0016","U+0017",
       "U+0018","U+0019","U+001A","U+001B","U+001C","U+001D","U+001E","U+001F",
       " ","!","\"","#","$","%","&","'",
       "(",")","*","+",",","-",".","/",
       "0","1","2","3","4","5","6","7",
       "8","9",":",";","<","=",">","?",
       "@","A","B","C","D","E","F","G",
       "H","I","J","K","L","M","N","O",
       "P","Q","R","S","T","U","V","W",
       "X","Y","Z","[","\\","]","^","_",
       "U+0060","a","b","c","d","e","f","g",
       "h","i","j","k","l","m","n","o",
       "p","q","r","s","t","u","v","w",
       "x","y","z","{","|","}","~","U+007F">>,
   Hex |-> <<"0","1","2","3","4","5","6","7","8","9","A","B","C","D","E","F">>,
   hex |-> <<"0","1","2","3","4","5","6","7","8","9","a","b","c","d","e","f">>,
   Escapes |-> [c \in {"\"", "\\", "/", "b", "f", "n", "r", "t"} |->
                  CASE c = "b" -> "U+0008" [] c = "f" -> "\f" [] c = "n" -> "\n"
                    [] c = "r" -> "\r" [] c = "t" -> "\t" [] OTHER -> c]]

Digits == <<"0","1","2","3","4","5","6","7","8","9">>
DigitChars == {Digits[i] : i \in 1..10}

\* the number of a byte or of a code unit
CodeOf(tok) ==
  LET digit(k) == (CHOOSE h \in 1..16 : Ch.Hex[h] = SubSeq(tok, k, k)) - 1 IN
  IF Len(tok) = 3 THEN digit(2) * 16 + digit(3)
  ELSE IF Len(tok) = 6
    THEN ((digit(3) * 16 + digit(4)) * 16 + digit(5)) * 16 + digit(6)
  ELSE (CHOOSE a \in 1..128 : Ch.Ascii[a] = tok) - 1
\* the byte (wide is FALSE) or the code unit (wide is TRUE) with number v
TokenOf(v, wide) ==
  IF v < 128 THEN Ch.Ascii[v + 1]
  ELSE IF wide
    THEN "U+" \o Ch.Hex[(v \div 4096) + 1] \o Ch.Hex[((v \div 256) % 16) + 1]
              \o Ch.Hex[((v \div 16) % 16) + 1] \o Ch.Hex[(v % 16) + 1]
  ELSE "x" \o Ch.Hex[(v \div 16) + 1] \o Ch.Hex[(v % 16) + 1]

Min(S) == CHOOSE x \in S : \A y \in S : x <= y
Max(S) == CHOOSE x \in S : \A y \in S : x >= y

\* s.substring(n) and s.substring(0, n)
Slice(s, a, b) == IF a > b THEN <<>> ELSE SubSeq(s, a, b)
Drop(s, n) == Slice(s, n + 1, Len(s))
Take(s, n) == Slice(s, 1, IF n < Len(s) THEN n ELSE Len(s))
StartsWithAt(s, i, lit) ==
  /\ i + Len(lit) - 1 <= Len(s)
  /\ \A j \in 1..Len(lit) : s[i + j - 1] = lit[j]

\* the concatenation of the sequences parts[lo], ..., parts[hi]
RECURSIVE FlattenRange(_, _, _)
FlattenRange(parts, lo, hi) ==
  IF lo > hi THEN <<>>
  ELSE IF lo = hi THEN parts[lo]
  ELSE FlattenRange(parts, lo, (lo + hi) \div 2)
         \o FlattenRange(parts, ((lo + hi) \div 2) + 1, hi)
Flatten(parts) == FlattenRange(parts, 1, Len(parts))

\* the UTF-8 bytes of the code point cp
CharBytes(cp) ==
  LET trail(n) == TokenOf(128 + (n % 64), FALSE) IN
  IF cp < 128 THEN <<TokenOf(cp, FALSE)>>
  ELSE IF cp < 2048 THEN <<TokenOf(192 + (cp \div 64), FALSE), trail(cp)>>
  ELSE IF cp < 65536
    THEN <<TokenOf(224 + (cp \div 4096), FALSE), trail(cp \div 64), trail(cp)>>
  ELSE <<TokenOf(240 + (cp \div 262144), FALSE), trail(cp \div 4096),
         trail(cp \div 64), trail(cp)>>
\* Buffer.from(str, 'utf8') and Buffer.byteLength(str, 'utf8'): a high
\* surrogate and the low surrogate after it are the four bytes of their code
\* point, and a surrogate without its partner is the three bytes of U+FFFD
Utf8Encode(str) ==
  IF \A i \in 1..Len(str) : Len(str[i]) = 1 THEN str
  ELSE
    LET high(i) == i \in 1..Len(str) /\ Len(str[i]) = 6 /\ CodeOf(str[i]) \in 55296..56319
        low(i) == i \in 1..Len(str) /\ Len(str[i]) = 6 /\ CodeOf(str[i]) \in 56320..57343
    IN Flatten([i \in 1..Len(str) |->
         IF Len(str[i]) = 1 THEN <<str[i]>>
         ELSE IF high(i) /\ low(i + 1)
           THEN CharBytes(65536 + (CodeOf(str[i]) - 55296) * 1024
                            + (CodeOf(str[i + 1]) - 56320))
         ELSE IF low(i) /\ high(i - 1) THEN <<>>
         ELSE IF high(i) \/ low(i) THEN CharBytes(65533)
         ELSE CharBytes(CodeOf(str[i]))])
ByteLength(str) == Len(Utf8Encode(str))

\* Buffer.toString(): UTF-8 decoding of one chunk.  A lead byte and the
\* bytes that may follow it decode to one code point; a byte that begins no
\* sequence, and a sequence that stops short, with the bytes of it that
\* were right, decode to U+FFFD.
\* the bytes that may follow the lead byte with number b, in order
Trail(b) ==
  IF b \in 194..223 THEN <<128..191>>
  ELSE IF b = 224 THEN <<160..191, 128..191>>
  ELSE IF b = 237 THEN <<128..159, 128..191>>
  ELSE IF b \in 225..239 THEN <<128..191, 128..191>>
  ELSE IF b = 240 THEN <<144..191, 128..191, 128..191>>
  ELSE IF b \in 241..243 THEN <<128..191, 128..191, 128..191>>
  ELSE IF b = 244 THEN <<128..143, 128..191, 128..191>>
  ELSE <<>>
\* the bytes after byte p, up to byte i, go on with the sequence byte p leads
Follows(bytes, p, i) ==
  /\ Len(bytes[p]) = 3
  /\ i - p <= Len(Trail(CodeOf(bytes[p])))
  /\ \A q \in (p + 1)..i :
       /\ q <= Len(bytes)
       /\ Len(bytes[q]) = 3
       /\ CodeOf(bytes[q]) \in Trail(CodeOf(bytes[p]))[q - p]
\* byte i goes on with a sequence that began before it
Continues(bytes, i) ==
  /\ Len(bytes[i]) = 3
  /\ \E p \in {i - 3, i - 2, i - 1} : p >= 1 /\ Follows(bytes, p, i)
\* the code units decoded from the sequence that starts at byte i: two, a
\* pair of surrogates, for a code point beyond U+FFFF
DecodedAt(bytes, i) ==
  IF Len(bytes[i]) # 3 THEN <<bytes[i]>>
  ELSE
    LET b == CodeOf(bytes[i])
        n == Len(Trail(b))
        six(k) == CodeOf(bytes[i + k]) % 64
        cp == IF n = 1 THEN (b % 32) * 64 + six(1)
              ELSE IF n = 2 THEN ((b % 16) * 64 + six(1)) * 64 + six(2)
              ELSE (((b % 8) * 64 + six(1)) * 64 + six(2)) * 64 + six(3)
    IN IF n = 0 \/ ~Follows(bytes, i, i + n) THEN <<Ch.FFFD>>
       ELSE IF cp < 65536 THEN <<TokenOf(cp, TRUE)>>
       ELSE <<TokenOf(55296 + ((cp - 65536) \div 1024), TRUE),
              TokenOf(56320 + ((cp - 65536) % 1024), TRUE)>>
Utf8Decode(bytes) ==
  IF \A i \in 1..Len(bytes) : Len(bytes[i]) = 1 THEN bytes
  ELSE Flatten([i \in 1..Len(bytes) |->
                  IF Continues(bytes, i) THEN <<>> ELSE DecodedAt(bytes, i)])

\* String(n) for a non-negative integer
RECURSIVE ToDecimal(_)
ToDecimal(n) ==
  IF n < 10 THEN <<Digits[n + 1]>> ELSE ToDecimal(n \div 10) \o <<Digits[(n % 10) + 1]>>

\* parseInt(digits, 10) for a non-empty run of decimal digits
RECURSIVE ParseInt(_)
ParseInt(ds) ==
  IF ds = <<>> THEN 0
  ELSE ParseInt(Take(ds, Len(ds) - 1)) * 10
         + (CHOOSE i \in 1..10 : Digits[i] = ds[Len(ds)]) - 1

----------------------------------------------------------------------------
(* The frame header, as the regular expression of onStdinData sees it *)

HeaderPrefix == <<"C","o","n","t","e","n","t","-","L","e","n","g","t","h",":"," ">>
HeaderEnd == <<Ch.CR, Ch.LF, Ch.CR, Ch.LF>>

\* the index after the longest run of digits that starts at index i
RECURSIVE DigitRunEnd(_, _)
DigitRunEnd(s, i) ==
  IF i <= Len(s) /\ s[i] \in DigitChars THEN DigitRunEnd(s, i + 1) ELSE i

\* /Content-Length: (\d+)\r\n\r\n/ matches at index i: the digits that
\* start at index d run to index e - 1, and the header terminator follows
\* them
HeaderAt(s, i) ==
  LET d == i + Len(HeaderPrefix)
      e == DigitRunEnd(s, d)
  IN  StartsWithAt(s, i, HeaderPrefix) /\ e > d /\ StartsWithAt(s, e, HeaderEnd)

\* the match that starts at index i and whose digits end before index e
MatchAt(s, i, e) ==
  [found |-> TRUE, index |-> i - 1,
   length |-> (e - i) + Len(HeaderEnd),
   group1 |-> SubSeq(s, i + Len(HeaderPrefix), e - 1)]
LeftmostMatch(s, I) ==
  IF I = {} THEN [found |-> FALSE, index |-> 0, length |-> 0, group1 |-> <<>>]
  ELSE MatchAt(s, Min(I), DigitRunEnd(s, Min(I) + Len(HeaderPrefix)))
\* buffer.match(/Content-Length: (\d+)\r\n\r\n/): the leftmost match, with
\* its 0-based index, the length of the matched text and capture group 1
HeaderMatch(s) == LeftmostMatch(s, {i \in 1..Len(s) : HeaderAt(s, i)})

----------------------------------------------------------------------------
(* JavaScript values and JSON.parse.                                       *)
(* A value is a record tagged by t: "undefined", "null", "bool", "num",    *)
(* "inf", "str" (v a sequence of code units), "arr" (v a sequence of       *)
(* values) or "obj" (v a function from keys, sequences of code units, to   *)
(* values, and k the keys in the order of Object.keys).                    *)
(* A number is a double, named by the shortest decimal that it is the      *)
(* nearest double of, as Number.prototype.toString names it: v * 10^e, an  *)
(* integer v and an exponent e <= 0, with v not a multiple of 10 where     *)
(* e < 0.  Infinity and -Infinity have the tag "inf" and the sign as v.    *)
(* The numbers have at most 15 significant digits, which a double keeps;  *)
(* v stays within the integers of 32 bits.                                 *)

Undefined == [t |-> "undefined"]
JNull == [t |-> "null"]
JBool(b) == [t |-> "bool", v |-> b]
JNum(n) == [t |-> "num", v |-> n, e |-> 0]
\* the double nearest to a * 10^x, for a > 0 not a multiple of 10 and
\* x < -323, where the decimal is finer than the doubles are: the double is
\* N times the least double 2^-1074, and its name is the shortest decimal
\* that N is the nearest multiple to, the nearest to the double among the
\* decimals as short
Subnormal(a, x) ==
  LET units(d, q) == (2 * d * 2^1074 + 10^(0 - q)) \div (2 * 10^(0 - q))
      N == units(a, x)
      names(d, q) == d % 10 # 0 /\ units(d, q) = N
      off(d, q) == IF d * 2^1074 < N * 10^(0 - q) THEN N * 10^(0 - q) - d * 2^1074
                   ELSE d * 2^1074 - N * 10^(0 - q)
      q == CHOOSE r \in x..(0 - 307) :
             /\ \E d \in 1..(10 * a) : names(d, r)
             /\ \A r2 \in (r + 1)..(0 - 307) : \A d \in 1..(10 * a) : ~names(d, r2)
      best == CHOOSE d \in 1..(10 * a) :
                names(d, q) /\ \A c \in 1..(10 * a) : names(c, q) => off(d, q) <= off(c, q)
  IN IF N = 0 THEN JNum(0) ELSE [JNum(best) EXCEPT !.e = q]
\* the double nearest to m * 10^x.  A decimal of at most 15 digits that is
\* no finer than the doubles around it is the shortest name of the double
\* nearest to it, so the number is kept as it is written; below half the
\* least double it is 0, and from 2^1024 - 2^970 on it is Infinity
RECURSIVE Decimal(_, _)
Decimal(m, x) ==
  LET a == IF m < 0 THEN 0 - m ELSE m
      k == Len(ToDecimal(a))
  IN
  IF m = 0 THEN JNum(0)
  ELSE IF x < 0 /\ m % 10 = 0 THEN Decimal(m \div 10, x + 1)
  ELSE IF k + x < -323 THEN JNum(0)
  ELSE IF k + x > 309 \/ (k + x = 309 /\ a > 1797693134 \div 10^(10 - k))
    THEN [t |-> "inf", v |-> IF m < 0 THEN -1 ELSE 1]
  ELSE IF x < -323
    THEN [Subnormal(a, x) EXCEPT !.v = IF m < 0 THEN 0 - @ ELSE @]
  ELSE IF x >= 0 THEN JNum(m * 10^x)
  ELSE [JNum(m) EXCEPT !.e = x]
JStr(s) == [t |-> "str", v |-> s]
JArr(a) == [t |-> "arr", v |-> a]
JObj(keys, f) == [t |-> "obj", k |-> keys, v |-> f]
\* the keys of an object in the order of Object.keys and JSON.stringify,
\* from the order in which they were created: the array indices, from 0 to
\* 2^32 - 2 in their canonical form, in ascending order, then the others
KeyOrder(keys) ==
  LET index(key) ==
        /\ key # <<>>
        /\ Len(key) <= 10
        /\ \A i \in 1..Len(key) : key[i] \in DigitChars
        /\ Len(key) > 1 => key[1] # "0"
        /\ Len(key) = 10 =>
             \/ ParseInt(Take(key, 9)) < 429496729
             \/ ParseInt(Take(key, 9)) = 429496729 /\ key[10] \in {"0", "1", "2", "3", "4"}
      named(key) == ~index(key)
      before(a, b) ==
        \/ Len(a) < Len(b)
        \/ /\ Len(a) = Len(b)
           /\ \/ ParseInt(Take(a, 9)) < ParseInt(Take(b, 9))
              \/ /\ ParseInt(Take(a, 9)) = ParseInt(Take(b, 9))
                 /\ ParseInt(Drop(a, 9)) < ParseInt(Drop(b, 9))
  IN IF \A i \in 1..Len(keys) : keys[i] = <<>> \/ keys[i][1] \notin DigitChars THEN keys
     ELSE SortSeq(SelectSeq(keys, index), before) \o SelectSeq(keys, named)

\* the first index at or after i that holds no white space
RECURSIVE SkipWs(_, _)
SkipWs(s, i) ==
  IF i <= Len(s) /\ s[i] \in {" ", Ch.TAB, Ch.LF, Ch.CR} THEN SkipWs(s, i + 1) ELSE i

\* a parse that failed: why names what the parser missed and at is the
\* index the parser stood at (Len(s) + 1 at the end of the text)
ParseFail(why, at) == [ok |-> FALSE, val |-> Undefined, next |-> 0, why |-> why, at |-> at]
ParseOk(v, n) == [ok |-> TRUE, val |-> v, next |-> n]

\* a string literal scanned from index j: acc holds the code units read
\* before index a, and the text from a to j - 1 is as it stands.  The
\* literal ends at the next quote; a backslash starts an escape, and no
\* control character stands in it unescaped
RECURSIVE StringFrom(_, _, _, _)
StringFrom(s, a, j, acc) ==
  IF j > Len(s) THEN ParseFail("unterminated", j)
  ELSE IF s[j] = Ch.DQ THEN ParseOk(JStr(acc \o Slice(s, a, j - 1)), j + 1)
  ELSE IF s[j] = Ch.BSL THEN
    (IF j + 1 > Len(s) THEN ParseFail("token", j + 1)
     ELSE IF s[j + 1] = "u" THEN
       LET digit(k) == (CHOOSE h \in 1..16 : s[k] \in {Ch.Hex[h], Ch.hex[h]}) - 1
           bad == {k \in (j + 2)..(j + 5) :
                     k > Len(s) \/ \A h \in 1..16 : s[k] \notin {Ch.Hex[h], Ch.hex[h]}}
       IN IF bad # {} THEN ParseFail("unicode", Min(bad))
          ELSE StringFrom(s, j + 6, j + 6,
                 acc \o Slice(s, a, j - 1) \o
                 <<TokenOf(((digit(j + 2) * 16 + digit(j + 3)) * 16 + digit(j + 4)) * 16
                             + digit(j + 5), TRUE)>>)
     ELSE IF s[j + 1] \in DOMAIN Ch.Escapes
       THEN StringFrom(s, j + 2, j + 2,
              acc \o Slice(s, a, j - 1) \o <<Ch.Escapes[s[j + 1]]>>)
     ELSE IF Len(s[j + 1]) = 6 /\ CodeOf(s[j + 1]) > 255 THEN ParseFail("token", j + 1)
     ELSE ParseFail("escape", j + 1))
  ELSE IF s[j] \in {Ch.CR, Ch.LF, Ch.TAB, Ch.FF} \/ (Len(s[j]) = 6 /\ CodeOf(s[j]) < 32)
    THEN ParseFail("control", j)
  ELSE StringFrom(s, a, j + 1, acc)

\* a number whose integer digits are at indices d to e - 1: a fraction, "."
\* and digits, and an exponent, "e" or "E", a sign or none and digits, may
\* follow them
NumberBetween(s, neg, d, e) ==
  LET dot == e <= Len(s) /\ s[e] = "."
      f == IF dot THEN DigitRunEnd(s, e + 1) ELSE e
      marked == f <= Len(s) /\ s[f] \in {"e", "E"}
      g == IF f < Len(s) /\ s[f + 1] \in {"+", "-"} THEN f + 2 ELSE f + 1
      h == IF marked THEN DigitRunEnd(s, g) ELSE f
      fraction == IF dot THEN SubSeq(s, e + 1, f - 1) ELSE <<>>
      exponent == IF ~marked THEN 0
                  ELSE IF s[g - 1] = "-" THEN 0 - ParseInt(SubSeq(s, g, h - 1))
                  ELSE ParseInt(SubSeq(s, g, h - 1))
      m == ParseInt(SubSeq(s, d, e - 1) \o fraction)
  IN
  IF e = d THEN ParseFail("minus", d)
  ELSE IF s[d] = "0" /\ e > d + 1 THEN ParseFail("token", d + 1)
  ELSE IF dot /\ f = e + 1 THEN ParseFail("fraction", f)
  ELSE IF marked /\ h = g THEN ParseFail("exponent", g)
  ELSE ParseOk(Decimal(IF neg THEN 0 - m ELSE m, exponent - Len(fraction)), h)

Lit ==
  [true |-> <<"t","r","u","e">>, false |-> <<"f","a","l","s","e">>,
   null |-> <<"n","u","l","l">>]
\* the literal lit is expected at index i, where its first character is: the
\* scan stops at the first character that is not the literal's
LiteralAt(s, i, lit, v) ==
  IF StartsWithAt(s, i, lit) THEN ParseOk(v, i + Len(lit))
  ELSE ParseFail("token",
         Min({i + k : k \in {n \in 1..Len(lit) - 1 :
                               i + n > Len(s) \/ s[i + n] # lit[n + 1]}}))

RECURSIVE ValueAt(_, _), ParseMembers(_, _, _), ParseElements(_, _, _)
\* the value that starts at index i
ValueAt(s, i) ==
  IF i > Len(s) THEN ParseFail("token", i)
  ELSE IF s[i] = "{" THEN ParseMembers(s, SkipWs(s, i + 1), JObj(<<>>, <<>>))
  ELSE IF s[i] = "[" THEN ParseElements(s, SkipWs(s, i + 1), <<>>)
  ELSE IF s[i] = Ch.DQ THEN StringFrom(s, i + 1, i + 1, <<>>)
  ELSE IF s[i] = "-" THEN NumberBetween(s, TRUE, i + 1, DigitRunEnd(s, i + 1))
  ELSE IF s[i] \in DigitChars THEN NumberBetween(s, FALSE, i, DigitRunEnd(s, i))
  ELSE IF s[i] = "t" THEN LiteralAt(s, i, Lit.true, JBool(TRUE))
  ELSE IF s[i] = "f" THEN LiteralAt(s, i, Lit.false, JBool(FALSE))
  ELSE IF s[i] = "n" THEN LiteralAt(s, i, Lit.null, JNull)
  ELSE ParseFail("token", i)
\* the value that starts at or after index i, white space skipped
ParseValue(s, i) == ValueAt(s, SkipWs(s, i))

\* after a member's value v: a comma and more members, or the closing brace
MembersAfter(s, e, acc) ==
  IF e > Len(s) THEN ParseFail("commaOrBrace", e)
  ELSE IF s[e] = "," THEN
    (IF SkipWs(s, e + 1) <= Len(s) /\ s[SkipWs(s, e + 1)] = Ch.DQ
     THEN ParseMembers(s, SkipWs(s, e + 1), acc)
     ELSE ParseFail("quotedName", SkipWs(s, e + 1)))
  ELSE IF s[e] = "}" THEN ParseOk(JObj(KeyOrder(acc.k), acc.v), e + 1)
  ELSE ParseFail("commaOrBrace", e)
\* a key that repeats keeps its place and its last value
MemberValue(s, key, v, acc) ==
  IF ~v.ok THEN v
  ELSE MembersAfter(s, SkipWs(s, v.next),
         JObj(IF key \in DOMAIN acc.v THEN acc.k ELSE Append(acc.k, key),
              (key :> v.val) @@ acc.v))
\* the colon after a member's name: where it is missing the first member
\* of an object has an error of its own, and a later member has the error
\* of the character met
MemberColon(s, key, c, acc) ==
  IF c > Len(s) \/ s[c] # ":"
    THEN ParseFail(IF acc.k = <<>> THEN "colon" ELSE "token", c)
  ELSE MemberValue(s, key, ParseValue(s, c + 1), acc)
MemberKey(s, k, acc) ==
  IF ~k.ok THEN k ELSE MemberColon(s, k.val.v, SkipWs(s, k.next), acc)
\* the members of an object from index i, the first index after the opening
\* brace or a comma that is not white space, to the closing brace
ParseMembers(s, i, acc) ==
  IF i > Len(s) THEN ParseFail("nameOrBrace", i)
  ELSE IF s[i] = "}" /\ acc.k = <<>> THEN ParseOk(acc, i + 1)
  ELSE IF s[i] # Ch.DQ THEN ParseFail("nameOrBrace", i)
  ELSE MemberKey(s, StringFrom(s, i + 1, i + 1, <<>>), acc)

ElementsAfter(s, e, acc) ==
  IF e > Len(s) THEN ParseFail("commaOrBracket", e)
  ELSE IF s[e] = "," THEN
    (IF SkipWs(s, e + 1) <= Len(s) /\ s[SkipWs(s, e + 1)] # "]"
     THEN ParseElements(s, SkipWs(s, e + 1), acc)
     ELSE ParseFail("token", SkipWs(s, e + 1)))
  ELSE IF s[e] = "]" THEN ParseOk(JArr(acc), e + 1)
  ELSE ParseFail("commaOrBracket", e)
ElementValue(s, v, acc) ==
  IF ~v.ok THEN v
  ELSE ElementsAfter(s, SkipWs(s, v.next), Append(acc, v.val))
\* the elements of an array from index i, the first index after the opening
\* bracket or a comma that is not white space, to the closing bracket
ParseElements(s, i, acc) ==
  IF i > Len(s) THEN ParseFail("token", i)
  ELSE IF s[i] = "]" /\ acc = <<>> THEN ParseOk(JArr(<<>>), i + 1)
  ELSE ElementValue(s, ValueAt(s, i), acc)

\* JSON.parse(text): ok is FALSE where JSON.parse throws a SyntaxError, and
\* why and at tell which
Parsed(text, r) ==
  IF ~r.ok THEN [ok |-> FALSE, val |-> Undefined, why |-> r.why, at |-> r.at]
  ELSE IF SkipWs(text, r.next) > Len(text) THEN [ok |-> TRUE, val |-> r.val]
  ELSE [ok |-> FALSE, val |-> Undefined, why |-> "after", at |-> SkipWs(text, r.next)]
JsonParse(text) == Parsed(text, ParseValue(text, 1))

----------------------------------------------------------------------------
(* The JavaScript operations the handlers apply to message values *)

\* the property names the handlers read, and toString, which a template
\* literal reads
K ==
  [id |-> <<"i","d">>,
   method |-> <<"m","e","t","h","o","d">>,
   params |-> <<"p","a","r","a","m","s">>,
   context |-> <<"c","o","n","t","e","x","t">>,
   query |-> <<"q","u","e","r","y">>,
   choices |-> <<"c","h","o","i","c","e","s">>,
   message |-> <<"m","e","s","s","a","g","e">>,
   content |-> <<"c","o","n","t","e","n","t">>,
   asr_got_result |-> <<"a","s","r","_","g","o","t","_","r","e","s","u","l","t">>,
   session_id |-> <<"s","e","s","s","i","o","n","_","i","d">>,
   reasoning_trace |-> <<"r","e","a","s","o","n","i","n","g","_","t","r","a","c","e">>,
   confidence |-> <<"c","o","n","f","i","d","e","n","c","e">>,
   name |-> <<"n","a","m","e">>,
   stage |-> <<"s","t","a","g","e">>,
   summary |-> <<"s","u","m","m","a","r","y">>,
   length |-> <<"l","e","n","g","t","h">>,
   toString |-> <<"t","o","S","t","r","i","n","g">>]

\* the methods of the switch of processMessage
Method ==
  [initialize |-> <<"i","n","i","t","i","a","l","i","z","e">>,
   shutdown |-> <<"s","h","u","t","d","o","w","n">>,
   query |-> <<"a","s","r","_","g","o","t",".","q","u","e","r","y">>,
   cancelled |-> <<"n","o","t","i","f","i","c","a","t","i","o","n","s","/","c","a","n","c","e","l","l","e","d">>]

\* reading a property of v throws a TypeError
Throws(v) == v.t \in {"undefined", "null"}
\* v[k], for a v whose properties can be read and a k that is no index: an
\* own property of an object, the length of an array or a string
Prop(v, k) ==
  IF v.t = "obj" /\ k \in DOMAIN v.v THEN v.v[k]
  ELSE IF v.t \in {"arr", "str"} /\ k = K.length THEN JNum(Len(v.v))
  ELSE Undefined
\* ToBoolean(v), as !v, v || d and if (v) apply it
Truthy(v) ==
  CASE v.t \in {"undefined", "null"} -> FALSE
    [] v.t = "bool" -> v.v
    [] v.t = "num" -> v.v # 0
    [] v.t = "str" -> v.v # <<>>
    [] OTHER -> TRUE
\* a || d
OrElse(a, d) == IF Truthy(a) THEN a ELSE d
\* v[0]
First(v) ==
  CASE v.t = "arr" /\ Len(v.v) > 0 -> v.v[1]
    [] v.t = "str" /\ Len(v.v) > 0 -> JStr(<<v.v[1]>>)
    [] OTHER -> Prop(v, <<"0">>)
\* for (const x of v) can iterate v
Iterable(v) == v.t \in {"arr", "str"}
\* the values the loop iterates over: the elements of an array, the code
\* points of a string, a high surrogate and the low surrogate after it
\* being one of them
Elements(v) ==
  LET unit(i, from, to) == Len(v.v[i]) = 6 /\ CodeOf(v.v[i]) \in from..to
      tail(i) == i > 1 /\ i <= Len(v.v) /\ unit(i, 56320, 57343)
                   /\ unit(i - 1, 55296, 56319)
      first(i) == ~tail(i)
      heads == SelectSeq([i \in 1..Len(v.v) |-> i], first)
  IN IF v.t = "arr" THEN v.v
     ELSE [j \in 1..Len(heads) |->
             JStr(Slice(v.v, heads[j], IF tail(heads[j] + 1) THEN heads[j] + 1 ELSE heads[j]))]

\* ToPrimitive(v) throws a TypeError, as `${v}` and v > 0 apply it: v is an
\* object with an own property toString, which JSON.parse never makes a
\* function and Object.prototype.valueOf does not make up for, or v is an
\* array that Array.prototype.join meets such an object in
RECURSIVE NoPrimitive(_)
NoPrimitive(v) ==
  CASE v.t = "obj" -> K.toString \in DOMAIN v.v
    [] v.t = "arr" -> \E i \in 1..Len(v.v) : NoPrimitive(v.v[i])
    [] OTHER -> FALSE

\* `${v}`: the string a template literal makes of v.  A v that NoPrimitive
\* holds of has none: the template literal throws
RECURSIVE ToStr(_), JoinFrom(_, _)
ToStr(v) ==
  CASE v.t = "undefined" -> <<"u","n","d","e","f","i","n","e","d">>
    [] v.t = "null" -> <<"n","u","l","l">>
    [] v.t = "bool" -> IF v.v THEN Lit.true ELSE Lit.false
    [] v.t = "num" ->
         \* Number.prototype.toString: n is the place of the decimal point
         \* among the digits ds
         LET ds == ToDecimal(IF v.v < 0 THEN 0 - v.v ELSE v.v)
             n == Len(ds) + v.e
         IN (IF v.v < 0 THEN <<"-">> ELSE <<>>) \o
            (IF v.e = 0 THEN ds
             ELSE IF n > 0 THEN Take(ds, n) \o <<".">> \o Drop(ds, n)
             ELSE IF n > -6 THEN <<"0", ".">> \o [i \in 1..(0 - n) |-> "0"] \o ds
             ELSE <<ds[1]>> \o (IF Len(ds) > 1 THEN <<".">> \o Drop(ds, 1) ELSE <<>>)
                    \o <<"e", "-">> \o ToDecimal(1 - n))
    [] v.t = "str" -> v.v
    [] v.t = "inf" -> IF v.v < 0 THEN <<"-","I","n","f","i","n","i","t","y">> ELSE <<"I","n","f","i","n","i","t","y">>
    [] v.t = "arr" /\ ~NoPrimitive(v) -> JoinFrom(v.v, 1)
    [] v.t = "obj" /\ ~NoPrimitive(v) -> <<"[","o","b","j","e","c","t"," ","O","b","j","e","c","t","]">>
JoinFrom(a, i) ==
  IF i > Len(a) THEN <<>>
  ELSE (IF Throws(a[i]) THEN <<>> ELSE ToStr(a[i]))
       \o (IF i < Len(a) THEN <<",">> ELSE <<>>) \o JoinFrom(a, i + 1)

\* v > 0, for a v that ToPrimitive does not throw on: ToNumber(v) is
\* positive.  A string is the number StringToNumber reads between its white
\* space: nothing is 0; Infinity; the digits after 0x, 0o and 0b; a decimal
\* with its fraction and exponent, which is 0 up to half the least double
\* 2^-1074; anything else is NaN.  An array is the string join makes of it
Positive(v) ==
  LET blank(c) == CodeOf(c) \in {9, 10, 11, 12, 13, 32, 160, 5760, 8232, 8233, 8239,
                                 8287, 12288, 65279} \cup 8192..8202
      radix(s, marks, digits) ==
        /\ Len(s) > 2 /\ s[1] = "0" /\ s[2] \in marks
        /\ \A i \in 3..Len(s) : s[i] \in digits
        /\ \E i \in 3..Len(s) : s[i] # "0"
      \* digits, with the point `places` before their end and times 10^power,
      \* are not 0: the number is below 10^top and not below 10^(top - 1)
      above(digits, places, power) ==
        \E top \in {Len(digits) - Min({i \in 1..Len(digits) : digits[i] # "0"})
                      + 1 + power - places} :
          \/ top > -323
          \/ top = -323 /\ ParseInt(digits) * 2^1075 > 10^(places - power)
      \* body is digits, a fraction from index whole on that ends before
      \* index frac, and an exponent that ends before index end
      decimal(body, whole, frac, end) ==
        \E scaled \in {frac <= Len(body) /\ body[frac] \in {"e", "E"}} :
        \E from \in {IF frac < Len(body) /\ body[frac + 1] \in {"+", "-"}
                     THEN frac + 2 ELSE frac + 1} :
        \E digits \in {Take(body, whole - 1) \o Slice(body, whole + 1, frac - 1)} :
          /\ digits # <<>> /\ (scaled => end > from) /\ end = Len(body) + 1
          /\ \E i \in 1..Len(digits) : digits[i] # "0"
          /\ above(digits, IF frac > whole THEN frac - whole - 1 ELSE 0,
                   IF ~scaled THEN 0
                   ELSE IF body[frac + 1] = "-"
                     THEN 0 - ParseInt(Slice(body, from, end - 1))
                   ELSE ParseInt(Slice(body, from, end - 1)))
      number(s, body) ==
        \/ body = <<"I","n","f","i","n","i","t","y">>
        \/ radix(s, {"x", "X"}, {Ch.Hex[i] : i \in 1..16} \cup {Ch.hex[i] : i \in 1..16})
        \/ radix(s, {"o", "O"}, {Digits[i] : i \in 1..8})
        \/ radix(s, {"b", "B"}, {"0", "1"})
        \/ \E whole \in {DigitRunEnd(body, 1)} :
           \E frac \in {IF whole <= Len(body) /\ body[whole] = "."
                        THEN DigitRunEnd(body, whole + 1) ELSE whole} :
             decimal(body, whole, frac,
                     IF frac <= Len(body) /\ body[frac] \in {"e", "E"}
                     THEN DigitRunEnd(body, IF frac < Len(body) /\ body[frac + 1] \in {"+", "-"}
                                            THEN frac + 2 ELSE frac + 1)
                     ELSE frac)
  IN
  CASE v.t = "bool" -> v.v
    [] v.t \in {"num", "inf"} -> v.v > 0
    [] v.t \in {"str", "arr"} ->
         \E str \in {IF v.t = "arr" THEN ToStr(v) ELSE v.v} :
         \E inner \in {{i \in 1..Len(str) : ~blank(str[i])}} :
         \E s \in {IF inner = {} THEN <<>> ELSE Slice(str, Min(inner), Max(inner))} :
           number(s, IF s # <<>> /\ s[1] = "+" THEN Drop(s, 1) ELSE s)
    [] OTHER -> FALSE
\* v.length > 0, for a v whose length ToPrimitive does not throw on
HasLength(v) == Positive(Prop(v, K.length))

----------------------------------------------------------------------------
(* Responses.  A response is a record [jsonrpc, id, result] or             *)
(* [jsonrpc, id, error]; id is the value the request carried.              *)

\* the JSON-RPC error codes of the responses
Code ==
  [NotInitialized |-> -32002, InvalidParams |-> -32602, Internal |-> -32603, MethodNotFound |-> -32601]

ErrorResponse(id, code, message) ==
  [jsonrpc |-> "2.0", id |-> id, error |-> [code |-> code, message |-> message]]
ResultResponse(id, result) == [jsonrpc |-> "2.0", id |-> id, result |-> result]
IsError(r) == "error" \in DOMAIN r
IsResult(r) == "result" \in DOMAIN r

\* the fixed descriptor handleInitialize answers with
InitializeResult ==
  [capabilities |-> [contextCapabilities |-> [defaultContext |->
     [schema |-> [type |-> "object",
                  properties |-> [query |-> [type |-> "string",
                     description |-> "The research query to analyze using ASR-GoT"]],
                  required |-> <<"query">>],
      exampleValue |-> [query |->
        "What is the relationship between autophagy and neurodegenerative diseases?"]]]],
   serverInfo |-> [name |-> "asr-got-mcp-server", version |-> "1.0.0"]]

\* the fixed texts of the responses, and the messages of the errors that
\* reach them: of the TypeError for (const x of v) throws on a v that cannot
\* be iterated, of the SyntaxError JSON.parse throws (the texts of V8 in
\* node 20), of a failed socket, of the Error execSync throws
Msg ==
  [NotInitialized |-> <<"S","e","r","v","e","r"," ","n","o","t"," ","i","n","i","t","i","a","l","i","z","e","d">>,
   MissingQuery |-> <<"M","i","s","s","i","n","g"," ","q","u","e","r","y"," ","i","n"," ","c","o","n","t","e","x","t">>,
   MethodNotFound |-> <<"M","e","t","h","o","d"," ","n","o","t"," ","f","o","u","n","d",":"," ">>,
   Internal |-> <<"I","n","t","e","r","n","a","l"," ","e","r","r","o","r",":"," ">>,
   Communicating |-> <<"E","r","r","o","r"," ","c","o","m","m","u","n","i","c","a","t","i","n","g"," ","w","i","t","h"," ","A","S","R","-","G","o","T"," ","s","e","r","v","e","r",":"," ">>,
   NoTrace |-> <<"N","o"," ","r","e","a","s","o","n","i","n","g"," ","t","r","a","c","e"," ","a","v","a","i","l","a","b","l","e",".">>,
   TimedOut |-> <<"R","e","q","u","e","s","t"," ","t","i","m","e","d"," ","o","u","t">>,
   StatusCode |-> <<"R","e","q","u","e","s","t"," ","f","a","i","l","e","d"," ","w","i","t","h"," ","s","t","a","t","u","s"," ","c","o","d","e"," ">>,
   ParseFailed |-> <<"F","a","i","l","e","d"," ","t","o"," ","p","a","r","s","e"," ","r","e","s","p","o","n","s","e",":"," ">>,
   UnknownStage |-> <<"U","n","k","n","o","w","n"," ","S","t","a","g","e">>,
   NoSummary |-> <<"N","o"," ","s","u","m","m","a","r","y"," ","a","v","a","i","l","a","b","l","e",".">>,
   NotIterable |-> <<"t","r","a","c","e"," ","i","s"," ","n","o","t"," ","i","t","e","r","a","b","l","e">>,
   NoPrimitive |-> <<"C","a","n","n","o","t"," ","c","o","n","v","e","r","t"," ","o","b","j","e","c","t"," ","t","o"," ","p","r","i","m","i","t","i","v","e"," ","v","a","l","u","e">>,
   UnexpectedEnd |-> <<"U","n","e","x","p","e","c","t","e","d"," ","e","n","d"," ","o","f"," ","J","S","O","N"," ","i","n","p","u","t">>,
   UnexpectedToken |-> <<"U","n","e","x","p","e","c","t","e","d"," ","t","o","k","e","n"," ","'">>,
   NotValid |-> <<" ","i","s"," ","n","o","t"," ","v","a","l","i","d"," ","J","S","O","N">>,
   AtPosition |-> <<" ","i","n"," ","J","S","O","N"," ","a","t"," ","p","o","s","i","t","i","o","n"," ">>,
   AfterJson |-> <<" ","a","f","t","e","r"," ","J","S","O","N"," ","a","t"," ","p","o","s","i","t","i","o","n"," ">>,
   number |-> <<"U","n","e","x","p","e","c","t","e","d"," ","n","u","m","b","e","r">>,
   string |-> <<"U","n","e","x","p","e","c","t","e","d"," ","s","t","r","i","n","g">>,
   after |-> <<"U","n","e","x","p","e","c","t","e","d"," ","n","o","n","-","w","h","i","t","e","s","p","a","c","e"," ","c","h","a","r","a","c","t","e","r">>,
   unterminated |-> <<"U","n","t","e","r","m","i","n","a","t","e","d"," ","s","t","r","i","n","g">>,
   control |-> <<"B","a","d"," ","c","o","n","t","r","o","l"," ","c","h","a","r","a","c","t","e","r"," ","i","n"," ","s","t","r","i","n","g"," ","l","i","t","e","r","a","l">>,
   escape |-> <<"B","a","d"," ","e","s","c","a","p","e","d"," ","c","h","a","r","a","c","t","e","r">>,
   minus |-> <<"N","o"," ","n","u","m","b","e","r"," ","a","f","t","e","r"," ","m","i","n","u","s"," ","s","i","g","n">>,
   fraction |-> <<"U","n","t","e","r","m","i","n","a","t","e","d"," ","f","r","a","c","t","i","o","n","a","l"," ","n","u","m","b","e","r">>,
   exponent |-> <<"E","x","p","o","n","e","n","t"," ","p","a","r","t"," ","i","s"," ","m","i","s","s","i","n","g"," ","a"," ","n","u","m","b","e","r">>,
   unicode |-> <<"B","a","d"," ","U","n","i","c","o","d","e"," ","e","s","c","a","p","e">>,
   nameOrBrace |-> <<"E","x","p","e","c","t","e","d"," ","p","r","o","p","e","r","t","y"," ","n","a","m","e"," ","o","r"," ","'","}","'">>,
   quotedName |-> <<"E","x","p","e","c","t","e","d"," ","d","o","u","b","l","e","-","q","u","o","t","e","d"," ","p","r","o","p","e","r","t","y"," ","n","a","m","e">>,
   colon |-> <<"E","x","p","e","c","t","e","d"," ","'",":","'"," ","a","f","t","e","r"," ","p","r","o","p","e","r","t","y"," ","n","a","m","e">>,
   commaOrBrace |-> <<"E","x","p","e","c","t","e","d"," ","'",",","'"," ","o","r"," ","'","}","'"," ","a","f","t","e","r"," ","p","r","o","p","e","r","t","y"," ","v","a","l","u","e">>,
   commaOrBracket |-> <<"E","x","p","e","c","t","e","d"," ","'",",","'"," ","o","r"," ","'","]","'"," ","a","f","t","e","r"," ","a","r","r","a","y"," ","e","l","e","m","e","n","t">>,
   SpecialStrings |-> {<<"[","o","b","j","e","c","t"," ","O","b","j","e","c","t","]">>, <<"u","n","d","e","f","i","n","e","d">>, <<"I","n","f","i","n","i","t","y">>, <<"N","a","N">>},
   SocketHangUp |-> <<"s","o","c","k","e","t"," ","h","a","n","g"," ","u","p">>,
   ConnectionRefused |-> <<"c","o","n","n","e","c","t"," ","E","C","O","N","N","R","E","F","U","S","E","D"," ","1","2","7",".","0",".","0",".","1",":","8","0","8","2">>,
   CommandFailed |-> <<"C","o","m","m","a","n","d"," ","f","a","i","l","e","d",":"," ","d","o","c","k","e","r","-","c","o","m","p","o","s","e"," ","d","o","w","n">>]
\* error.message of the SyntaxError JSON.parse(text) throws, p the failed
\* parse: the parser stood at index p.at (position p.at - 1) and names what
\* it expected; where it names nothing it reports the end of the input, a
\* number, a string, or the character it met, with the text when the text
\* is shorter than 21 code units and with the 10 code units on either side
\* of the character otherwise
SyntaxErrorMessage(text, p) ==
  LET pos == p.at - 1
      quoted(s) == <<Ch.DQ>> \o s \o <<Ch.DQ>>
      dots == <<".", ".", ".">>
  IN
  IF p.why = "after" THEN Msg.after \o Msg.AfterJson \o ToDecimal(pos)
  ELSE IF p.why # "token" THEN Msg[p.why] \o Msg.AtPosition \o ToDecimal(pos)
  ELSE IF p.at > Len(text) THEN Msg.UnexpectedEnd
  ELSE IF text[p.at] = "-" \/ text[p.at] \in DigitChars
    THEN Msg.number \o Msg.AtPosition \o ToDecimal(pos)
  ELSE IF text[p.at] = Ch.DQ THEN Msg.string \o Msg.AtPosition \o ToDecimal(pos)
  ELSE IF text \in Msg.SpecialStrings THEN quoted(text) \o Msg.NotValid
  ELSE Msg.UnexpectedToken \o <<text[p.at], "'", ",", " ">> \o
       (IF Len(text) < 21 THEN quoted(text)
        ELSE IF pos < 10 THEN quoted(Take(text, pos + 10)) \o dots
        ELSE IF pos < Len(text) - 10
          THEN dots \o quoted(Slice(text, pos - 9, pos + 10)) \o dots
        ELSE dots \o quoted(Drop(text, pos - 10)))
       \o Msg.NotValid

\* the message of the TypeError a property read of undefined or null throws
TypeErrorMessage(v, k) ==
  <<"C","a","n","n","o","t"," ","r","e","a","d"," ","p","r","o","p","e","r","t","i","e","s"," ","o","f"," ">> \o ToStr(v) \o <<" ","(","r","e","a","d","i","n","g"," ","'">> \o k \o <<"'",")">>

DefaultConfidence == JArr(<<JNum(0), JNum(0), JNum(0), JNum(0)>>)

----------------------------------------------------------------------------
(* extractReasoningTrace *)

\* one entry of formattedTrace
StageText(stage) ==
  <<"S","t","a","g","e"," ">> \o ToStr(OrElse(Prop(stage, K.stage), JStr(<<"?">>)))
    \o <<":", " ">> \o ToStr(OrElse(Prop(stage, K.name), JStr(Msg.UnknownStage)))
    \o <<Ch.LF>> \o ToStr(OrElse(Prop(stage, K.summary), JStr(Msg.NoSummary))) \o <<Ch.LF>>
\* formattedTrace.join('\n')
RECURSIVE JoinLines(_, _)
JoinLines(entries, i) ==
  IF i > Len(entries) THEN <<>>
  ELSE entries[i] \o (IF i < Len(entries) THEN <<Ch.LF>> ELSE <<>>) \o JoinLines(entries, i + 1)
\* what an iteration of the loop throws on a stage, and nothing where it
\* throws nothing: the TypeError of stage.name on a stage that is null, and
\* of the template literal on a part that has no string
StageError(stage) ==
  IF Throws(stage) THEN TypeErrorMessage(stage, K.name)
  ELSE IF \E k \in {K.stage, K.name, K.summary} : NoPrimitive(Prop(stage, k))
    THEN Msg.NoPrimitive
  ELSE <<>>
\* the call throws: the trace cannot be iterated, or an iteration throws
TraceThrows(asrGotResult) ==
  /\ Truthy(asrGotResult)
  /\ Truthy(Prop(asrGotResult, K.reasoning_trace))
  /\ LET trace == Prop(asrGotResult, K.reasoning_trace)
     IN  \/ ~Iterable(trace)
         \/ \E i \in 1..Len(Elements(trace)) : StageError(Elements(trace)[i]) # <<>>
\* error.message of what the call throws: of the first iteration that throws
TraceErrorMessage(asrGotResult) ==
  LET trace == Prop(asrGotResult, K.reasoning_trace)
  IN  IF ~Iterable(trace) THEN Msg.NotIterable
      ELSE StageError(Elements(trace)[Min({j \in 1..Len(Elements(trace)) :
                                            StageError(Elements(trace)[j]) # <<>>})])
extractReasoningTrace(asrGotResult) ==
  IF ~Truthy(asrGotResult) \/ ~Truthy(Prop(asrGotResult, K.reasoning_trace))
  THEN Msg.NoTrace
  ELSE LET stages == Elements(Prop(asrGotResult, K.reasoning_trace))
       IN  JoinLines([i \in 1..Len(stages) |-> StageText(stages[i])], 1)

----------------------------------------------------------------------------
(* Framing, as the bridge writes it and as its peer does *)

\* `Content-Length: ${Buffer.byteLength(json, 'utf8')}\r\n\r\n${json}`
FrameText(json) == HeaderPrefix \o ToDecimal(ByteLength(json)) \o HeaderEnd \o json
\* the bytes of one frame on the wire
FrameBytes(json) == Utf8Encode(FrameText(json))

----------------------------------------------------------------------------
(* What the environment offers: request payloads, health-probe outcomes,   *)
(* backend HTTP events                                                     *)

Payloads ==
  [initialize |-> <<"{","\"","i","d","\"",":","1",",","\"","m","e","t","h","o","d","\"",":","\"","i","n","i","t","i","a","l","i","z","e","\"","}">>,
   queryA |-> <<"{","\"","i","d","\"",":","2",",","\"","m","e","t","h","o","d","\"",":","\"","a","s","r","_","g","o","t",".","q","u","e","r","y","\"",",","\"","p","a","r","a","m","s","\"",":","{","\"","c","o","n","t","e","x","t","\"",":","{","\"","q","u","e","r","y","\"",":","\"","a","\"","}","}","}">>,
   queryB |-> <<"{","\"","i","d","\"",":","3",",","\"","m","e","t","h","o","d","\"",":","\"","a","s","r","_","g","o","t",".","q","u","e","r","y","\"",",","\"","p","a","r","a","m","s","\"",":","{","\"","c","o","n","t","e","x","t","\"",":","{","\"","q","u","e","r","y","\"",":","\"","b","\"","}","}","}">>,
   shutdown |-> <<"{","\"","i","d","\"",":","4",",","\"","m","e","t","h","o","d","\"",":","\"","s","h","u","t","d","o","w","n","\"","}">>,
   ping |-> <<"{","\"","i","d","\"",":","7",",","\"","m","e","t","h","o","d","\"",":","\"","p","i","n","g","\"","}">>,
   truncated |-> <<"{","\"","i","d","\"",":","8",",">>,
   accented |-> <<"{","\"","i","d","\"",":","9",",","\"","m","e","t","h","o","d","\"",":","\"","U+00E9","\"","}">>,
   accentedBad |-> <<"{","\"","U+00E9">>,
   cancelA |-> <<"{","\"","m","e","t","h","o","d","\"",":","\"","n","o","t","i","f","i","c","a","t","i","o","n","s","/","c","a","n","c","e","l","l","e","d","\"",",","\"","p","a","r","a","m","s","\"",":","{","\"","r","e","q","u","e","s","t","I","d","\"",":","2","}","}">>,
   notified |-> <<"{","\"","m","e","t","h","o","d","\"",":","\"","n","o","t","i","f","i","c","a","t","i","o","n","s","/","i","n","i","t","i","a","l","i","z","e","d","\"","}">>,
   queryBare |-> <<"{","\"","i","d","\"",":","5",",","\"","m","e","t","h","o","d","\"",":","\"","a","s","r","_","g","o","t",".","q","u","e","r","y","\"","}">>,
   queryBlank |-> <<"{","\"","i","d","\"",":","\"","\"",",","\"","m","e","t","h","o","d","\"",":","\"","a","s","r","_","g","o","t",".","q","u","e","r","y","\"","}">>,
   queryEmpty |-> <<"{","\"","i","d","\"",":","6",",","\"","m","e","t","h","o","d","\"",":","\"","a","s","r","_","g","o","t",".","q","u","e","r","y","\"",",","\"","p","a","r","a","m","s","\"",":","{","\"","c","o","n","t","e","x","t","\"",":","{","\"","q","u","e","r","y","\"",":","\"","\"","}","}","}">>,
   queryNoText |-> <<"{","\"","i","d","\"",":","6",",","\"","m","e","t","h","o","d","\"",":","\"","a","s","r","_","g","o","t",".","q","u","e","r","y","\"",",","\"","p","a","r","a","m","s","\"",":","{","}","}">>,
   queryTimed |-> <<"{","\"","i","d","\"",":","8",",","\"","m","e","t","h","o","d","\"",":","\"","a","s","r","_","g","o","t",".","q","u","e","r","y","\"",",","\"","p","a","r","a","m","s","\"",":","{","\"","c","o","n","t","e","x","t","\"",":","{","\"","q","u","e","r","y","\"",":","\"","a","\"","}",",","\"","t","i","m","e","o","u","t","\"",":","1","2","0","0","0","0","}","}">>,
   queryOdd |-> <<"{","\"","i","d","\"",":","{","\"","t","o","S","t","r","i","n","g","\"",":","1","}",",","\"","m","e","t","h","o","d","\"",":","\"","a","s","r","_","g","o","t",".","q","u","e","r","y","\"",",","\"","p","a","r","a","m","s","\"",":","{","\"","c","o","n","t","e","x","t","\"",":","{","\"","q","u","e","r","y","\"",":","\"","a","\"","}","}","}">>,
   shutdownOdd |-> <<"{","\"","i","d","\"",":","{","\"","t","o","S","t","r","i","n","g","\"",":","1","}",",","\"","m","e","t","h","o","d","\"",":","\"","s","h","u","t","d","o","w","n","\"","}">>,
   cancelOdd |-> <<"{","\"","i","d","\"",":","{","\"","t","o","S","t","r","i","n","g","\"",":","1","}",",","\"","m","e","t","h","o","d","\"",":","\"","n","o","t","i","f","i","c","a","t","i","o","n","s","/","c","a","n","c","e","l","l","e","d","\"","}">>,
   pingOdd |-> <<"{","\"","i","d","\"",":","7",",","\"","m","e","t","h","o","d","\"",":","{","\"","t","o","S","t","r","i","n","g","\"",":","1","}","}">>,
   cancelNumbered |-> <<"{","\"","i","d","\"",":","1","1",",","\"","m","e","t","h","o","d","\"",":","\"","n","o","t","i","f","i","c","a","t","i","o","n","s","/","c","a","n","c","e","l","l","e","d","\"","}">>]

ProbeOutcomes == {"status200", "status503", "error", "timeout"}

ReplyBodies ==
  [A |-> <<"{","\"","c","h","o","i","c","e","s","\"",":","[","{","\"","m","e","s","s","a","g","e","\"",":","{","\"","c","o","n","t","e","n","t","\"",":","\"","A","\\","n","\"","}","}","]",",","\"","a","s","r","_","g","o","t","_","r","e","s","u","l","t","\"",":","{","\"","r","e","a","s","o","n","i","n","g","_","t","r","a","c","e","\"",":","[","{","\"","s","t","a","g","e","\"",":","1",",","\"","n","a","m","e","\"",":","\"","N","1","\"",",","\"","s","u","m","m","a","r","y","\"",":","\"","S","1","\"",",","\"","m","e","t","r","i","c","s","\"",":","{","\"","m","\"",":","1","}","}","]",",","\"","c","o","n","f","i","d","e","n","c","e","\"",":","[","0",".","9",",","1",",","1",",","1","]","}",",","\"","s","e","s","s","i","o","n","_","i","d","\"",":","\"","s","1","\"","}">>,
   B |-> <<"{","\"","c","h","o","i","c","e","s","\"",":","[","{","\"","m","e","s","s","a","g","e","\"",":","{","\"","c","o","n","t","e","n","t","\"",":","\"","B","\"","}","}","]",",","\"","a","s","r","_","g","o","t","_","r","e","s","u","l","t","\"",":","{","\"","r","e","a","s","o","n","i","n","g","_","t","r","a","c","e","\"",":","[","{","\"","s","t","a","g","e","\"",":","2",",","\"","n","a","m","e","\"",":","\"","N","2","\"",",","\"","s","u","m","m","a","r","y","\"",":","\"","S","2","\"",",","\"","m","e","t","r","i","c","s","\"",":","{","\"","m","\"",":","2","}","}","]",",","\"","c","o","n","f","i","d","e","n","c","e","\"",":","[","2",",","2",",","2",",","2","]","}",",","\"","s","e","s","s","i","o","n","_","i","d","\"",":","\"","s","2","\"","}">>,
   bare |-> <<"{","\"","c","h","o","i","c","e","s","\"",":","[","{","\"","m","e","s","s","a","g","e","\"",":","{","\"","c","o","n","t","e","n","t","\"",":","\"","C","\"","}","}","]","}">>,
   ordered |-> <<"{","\"","c","h","o","i","c","e","s","\"",":","[","{","\"","m","e","s","s","a","g","e","\"",":","{","\"","c","o","n","t","e","n","t","\"",":","\"","D","\"","}","}","]",",","\"","a","s","r","_","g","o","t","_","r","e","s","u","l","t","\"",":","{","\"","c","o","n","f","i","d","e","n","c","e","\"",":","[","1",",","2",",","3",",","4","]","}","}">>,
   unrated |-> <<"{","\"","c","h","o","i","c","e","s","\"",":","[","{","\"","m","e","s","s","a","g","e","\"",":","{","\"","c","o","n","t","e","n","t","\"",":","\"","E","\"","}","}","]",",","\"","a","s","r","_","g","o","t","_","r","e","s","u","l","t","\"",":","{","}","}">>,
   staged |-> <<"{","\"","c","h","o","i","c","e","s","\"",":","[","{","\"","m","e","s","s","a","g","e","\"",":","{","\"","c","o","n","t","e","n","t","\"",":","\"","F","\"","}","}","]",",","\"","a","s","r","_","g","o","t","_","r","e","s","u","l","t","\"",":","{","\"","r","e","a","s","o","n","i","n","g","_","t","r","a","c","e","\"",":","[","{","\"","s","t","a","g","e","\"",":","2",",","\"","n","a","m","e","\"",":","\"","N","2","\"",",","\"","s","u","m","m","a","r","y","\"",":","\"","S","2","\"",",","\"","m","e","t","r","i","c","s","\"",":","{","\"","q","\"",":","2","}","}",",","{","\"","s","t","a","g","e","\"",":","1",",","\"","n","a","m","e","\"",":","\"","N","1","\"",",","\"","s","u","m","m","a","r","y","\"",":","\"","S","1","\"","}",",","{","}","]","}",",","\"","s","e","s","s","i","o","n","_","i","d","\"",":","\"","s","3","\"","}">>,
   empty |-> <<"{","}">>,
   contentless |-> <<"{","\"","c","h","o","i","c","e","s","\"",":","[","{","\"","m","e","s","s","a","g","e","\"",":","{","}","}","]","}">>,
   messageless |-> <<"{","\"","c","h","o","i","c","e","s","\"",":","[","{","}","]","}">>,
   untraceable |-> <<"{","\"","a","s","r","_","g","o","t","_","r","e","s","u","l","t","\"",":","{","\"","r","e","a","s","o","n","i","n","g","_","t","r","a","c","e","\"",":","5","}",",","\"","s","e","s","s","i","o","n","_","i","d","\"",":","\"","s","9","\"","}">>,
   garbled |-> <<"<","h","t","m","l",">">>]

\* the backend answers 200 with one of the reply bodies the handler makes a
\* result of
Replies ==
  {[kind |-> "end", status |-> 200, body |-> b] :
     b \in DOMAIN ReplyBodies \ {"untraceable", "garbled"}}
\* the backend answers 500, the socket fails, the request times out; the
\* body of an 'error' names the message of the error the request emits
Failures ==
  {[kind |-> "end", status |-> 500, body |-> "bare"],
   [kind |-> "error", status |-> 0, body |-> "SocketHangUp"],
   [kind |-> "timeout", status |-> 0, body |-> "bare"]}
\* the events of a request that settle the promise of makeRequest: the
\* replies, the failures, and the 'error' of a connection that is refused
BackendEvents ==
  [kind : {"end"}, status : {200}, body : DOMAIN ReplyBodies] \cup Failures
    \cup {[kind |-> "error", status |-> 0, body |-> "ConnectionRefused"]}
NoEvent == [kind |-> "none", status |-> 0, body |-> "bare"]

----------------------------------------------------------------------------
(* Bounds of the exploration *)

\* frames the client sends when chunks are whole writes
MaxFrames == 3
\* frames the client sends when chunks are cut byte by byte
CodecFrames == 2
\* initialize requests the client sends
MaxInits == 2
\* events one HTTP request emits when late events follow the first
MaxEvents == 2
\* attempts of the polling loop of startDockerContainers
MaxAttempts == 10

\* Framing faults of the client: a header that is no header, a header that
\* declares one byte more than the payload has, one that declares one byte
\* less
FaultyFrameText(kind, json) ==
  CASE kind = "noHeader" -> HeaderPrefix \o <<"x">> \o HeaderEnd \o json
    [] kind = "long" -> HeaderPrefix \o ToDecimal(ByteLength(json) + 1) \o HeaderEnd \o json
    [] OTHER -> HeaderPrefix \o ToDecimal(ByteLength(json) - 1) \o HeaderEnd \o json

\* The runs explored.  A profile fixes what the client may send first and
\* afterwards, how many frames it sends, how the pipe cuts its writes into
\* chunks, what the health probes may observe, which events the backend
\* produces and how many of them one request emits, and the framing faults
\* the client may commit (at most one in a run; fault and faultAt record the
\* one committed and the number of frames written before it), how the
\* docker-compose down that execSync runs may end, and what may end the
\* process:
\*  - a session: the handshake, then queries that the backend answers;
\*  - a shutdown: the handshake or a query, then queries and shutdowns, the
\*    backend answering or failing;
\*  - a restart: the handshake, then queries and further initialize requests,
\*    the backend leaving the queries unanswered;
\*  - a codec run: payloads that reach no handler, delivered byte by byte or
\*    in a single chunk;
\*  - a deadline run: queries whose HTTP request emits a late event after
\*    the first;
\*  - a notification run: queries, cancellations, other notifications and
\*    further initialize requests;
\*  - a faulty run: frames among which one is not well formed;
\*  - a validation run: queries without params, without text or with an
\*    empty id, and a method the bridge does not know;
\*  - a run that ends: a query or a shutdown, then a signal or the end of
\*    stdin;
\*  - an extraction run: queries whose reply lacks optional fields, holds
\*    several stages, holds a trace that cannot be iterated, or is no JSON,
\*    and a query that names a timeout;
\*  - a coercion run: requests whose id or method is an object that has no
\*    string, and a cancellation that carries an id;
\*  - an outage: queries to a backend that refuses the connection, or that
\*    sends the status line and a part of the body and then drops the
\*    connection ("aborted": the response emits no 'end' and the request
\*    neither 'error' nor 'timeout', so no handler of makeRequest runs).
Profiles ==
  {p @@ [perCall |-> 1, faults |-> {}, fault |-> "none", faultAt |-> 0,
          execSync |-> {"exits0"}, ends |-> {}] : p \in
  {[first |-> {"initialize"}, pool |-> {"queryA", "queryB"},
    frames |-> MaxFrames, chunks |-> "whole",
    probes |-> {"status200", "status503"},
    events |-> {r \in Replies : r.body \in {"A", "B", "bare"}}],
   [first |-> {"initialize", "queryA"}, pool |-> {"shutdown", "queryA"},
    frames |-> MaxFrames, chunks |-> "whole",
    probes |-> ProbeOutcomes,
    events |-> Failures \cup {[kind |-> "end", status |-> 200, body |-> "A"]},
    execSync |-> {"exits0", "throws"}],
   [first |-> {"initialize"}, pool |-> {"initialize", "queryA"},
    frames |-> MaxFrames, chunks |-> "whole",
    probes |-> {"status200", "status503"}, events |-> {}],
   [first |-> {"ping", "truncated", "accented", "accentedBad"},
    pool |-> {"ping", "truncated", "accented", "accentedBad"},
    frames |-> CodecFrames, chunks |-> "bytes",
    probes |-> {}, events |-> {}],
   [first |-> {"initialize"}, pool |-> {"queryA"},
    frames |-> MaxFrames - 1, chunks |-> "whole",
    probes |-> {"status200"},
    events |-> Failures \cup {[kind |-> "end", status |-> 200, body |-> "A"]},
    perCall |-> MaxEvents],
   [first |-> {"initialize"}, pool |-> {"queryA", "cancelA", "notified", "initialize"},
    frames |-> MaxFrames, chunks |-> "whole",
    probes |-> {"status200"},
    events |-> {[kind |-> "end", status |-> 200, body |-> "A"],
                [kind |-> "timeout", status |-> 0, body |-> "bare"]}],
   [first |-> {"ping", "shutdown"}, pool |-> {"ping", "shutdown"},
    frames |-> CodecFrames, chunks |-> "bytes",
    probes |-> {}, events |-> {}, faults |-> {"noHeader", "long", "short"}],
   [first |-> {"initialize"},
    pool |-> {"queryA", "queryBare", "queryBlank", "queryEmpty", "queryNoText", "ping"},
    frames |-> MaxFrames, chunks |-> "whole",
    probes |-> {"status200"},
    events |-> {r \in Replies : r.body \in {"ordered", "unrated"}}],
   [first |-> {"initialize"}, pool |-> {"queryA", "shutdown"},
    frames |-> CodecFrames, chunks |-> "whole",
    probes |-> {"status200"}, events |-> Failures,
    execSync |-> {"exits0", "throws"},
    ends |-> {"SIGINT", "SIGTERM", "stdinEnd"}],
   [first |-> {"initialize"}, pool |-> {"queryA", "queryTimed"},
    frames |-> MaxFrames - 1, chunks |-> "whole",
    probes |-> {"status200"},
    events |-> Failures \cup
      {[kind |-> "end", status |-> 200, body |-> b] :
         b \in {"staged", "empty", "contentless", "messageless",
                "untraceable", "garbled"}}],
   [first |-> {"initialize", "queryOdd"},
    pool |-> {"queryOdd", "shutdownOdd", "cancelOdd", "pingOdd", "cancelNumbered"},
    frames |-> MaxFrames - 1, chunks |-> "whole",
    probes |-> {"status200", "status503"}, events |-> {}],
   [first |-> {"initialize"}, pool |-> {"queryA"},
    frames |-> CodecFrames, chunks |-> "whole",
    probes |-> {"status200"},
    events |-> {[kind |-> "end", status |-> 200, body |-> "A"],
                [kind |-> "error", status |-> 0, body |-> "ConnectionRefused"],
                [kind |-> "aborted", status |-> 200, body |-> "A"]}]}}

----------------------------------------------------------------------------
(* State *)

VARIABLES
  env,            \* what the client still may send and how the pipe cuts chunks
  wire,           \* bytes written to stdin and not yet delivered as a chunk
  buffer,         \* let buffer
  contentLength,  \* let contentLength
  initialized,    \* let initialized
  sessionId,      \* let sessionId
  launches,       \* the startDockerContainers calls made, each with its position
  calls,          \* the makeRequest calls made, each pending or settled
  out,            \* the responses written to stdout, in order
  sent,           \* history: the names of the payloads the client framed, in order
  decoded,        \* history: the payloads onStdinData extracted, in order
  dispatched,     \* history: the messages given to processMessage, in order
  outOf,          \* history: for each response written, the dispatch it answers
  everReady,      \* history: some startDockerContainers has returned true
  stopped,        \* history: a shutdown request has been handled
  stops,          \* history: the stopDockerContainers calls made, in order
  exited          \* "no" while the process runs, then what ended it

vars == <<env, wire, buffer, contentLength, initialized, sessionId, launches,
          calls, out, sent, decoded, dispatched, outOf, everReady, stopped,
          stops, exited>>

\* the state the handlers read and write, as one record; micro holds the
\* responses whose write is queued behind promise reactions, execSync how
\* a docker-compose down run now ends
Machine ==
  [buffer |-> buffer, contentLength |-> contentLength,
   initialized |-> initialized, sessionId |-> sessionId,
   launches |-> launches, calls |-> calls, micro |-> <<>>, thrown |-> <<>>,
   decoded |-> decoded, dispatched |-> dispatched,
   everReady |-> everReady, stopped |-> stopped, stops |-> stops,
   execSync |-> "exits0"]

\* the dispatch being handled
Current(s) == Len(s.dispatched)

\* processMessage(message).then(response => process.stdout.write(...)): the
\* write runs after `tick` promise reactions
Reply(s, tick, response) ==
  [s EXCEPT !.micro = Append(@, [tick |-> tick, response |-> response, of |-> Current(s)])]
\* an exception leaves the handler
Throw(s, message) == [s EXCEPT !.thrown = message]

----------------------------------------------------------------------------
(* startDockerContainers and checkASRGotRunning *)

\* a health probe that takes any HTTP response for a running server
checkASRGotRunningAnyStatus(outcome) == outcome \in {"status200", "status503"}

\* what one health probe resolves to: resolve(res.statusCode === 200) on a
\* response, resolve(false) on 'error' and on 'timeout'
checkASRGotRunning(outcome) == outcome = "status200"

\* startDockerContainers() up to its first await: the first probe is issued.
\* pc is "check" while that probe is pending, "poll" while the loop waits for
\* its delay and the probe after it, "done" after the return; spawns counts
\* the docker-compose up commands issued, probes the health calls that have
\* resolved, first is what the first of them found; by is the dispatch that
\* made the call and at the number of dispatches made when it returned; seen
\* is what the latest health call met
NewLaunch(by) ==
  [pc |-> "check", spawns |-> 0, i |-> 0, probes |-> 0, first |-> "pending",
   result |-> "pending", by |-> by, at |-> 0, seen |-> "none"]

\* .then(success => { initialized = success; }): the launch settles
LaunchSettled(s, l, success) ==
  [s EXCEPT !.initialized = success,
            !.everReady = @ \/ success,
            !.launches[l].pc = "done",
            !.launches[l].at = Len(s.dispatched),
            !.launches[l].result = IF success THEN "true" ELSE "false"]

\* a health call of launch l resolved to isRunning
Probed(s, l, isRunning) ==
  [s EXCEPT !.launches[l].probes = @ + 1,
            !.launches[l].first =
              IF @ = "pending" THEN (IF isRunning THEN "ready" ELSE "failed") ELSE @]

\* a startDockerContainers that spawns docker-compose up before it looks at
\* the result of its first probe
AfterProbeSpawning(s, l, isRunning) ==
  IF s.launches[l].pc = "check"
  THEN LaunchSettled([Probed(s, l, isRunning) EXCEPT !.launches[l].spawns = @ + 1],
                     l, isRunning)
  ELSE LaunchSettled(Probed(s, l, isRunning), l, isRunning)

\* startDockerContainers from the probe that resolved to isRunning up to its
\* next probe or its return: docker-compose up is spawned after the first
\* probe failed, and the loop gives up after MaxAttempts failed probes
AfterProbe(s, l, isRunning) ==
  IF isRunning THEN LaunchSettled(Probed(s, l, isRunning), l, TRUE)
  ELSE IF s.launches[l].pc = "check"
    THEN [Probed(s, l, isRunning) EXCEPT !.launches[l].spawns = @ + 1,
                                         !.launches[l].pc = "poll"]
  ELSE IF s.launches[l].i + 1 < MaxAttempts
    THEN [Probed(s, l, isRunning) EXCEPT !.launches[l].i = @ + 1]
  ELSE LaunchSettled([Probed(s, l, isRunning) EXCEPT !.launches[l].i = @ + 1], l, FALSE)

----------------------------------------------------------------------------
(* The handlers *)

\* a handleInitialize that awaits startDockerContainers before it returns:
\* no response is queued when the handler suspends
handleInitializeAwaiting(s, params, id) ==
  [s EXCEPT !.launches = Append(@, NewLaunch(Current(s))),
            !.dispatched[Current(s)].launch = Len(s.launches) + 1]

handleInitialize(s, params, id) ==
  Reply([s EXCEPT !.launches = Append(@, NewLaunch(Current(s))),
                  !.dispatched[Current(s)].launch = Len(s.launches) + 1],
        2, ResultResponse(id, InitializeResult))

\* stopDockerContainers(): execSync('docker-compose down') runs to its end
\* inside the call, and the catch block logs its failure; by is the dispatch
\* that made the call
stopDockerContainers(s, by) ==
  [s EXCEPT !.stops = Append(@, [by |-> by, failed |-> s.execSync = "throws"])]

handleShutdown(s, params, id) ==
  Reply([stopDockerContainers(s, Current(s)) EXCEPT !.initialized = FALSE,
                                                    !.stopped = TRUE],
        2, ResultResponse(id, JNull))

\* a makeRequest that writes its request to the backend twice
makeRequestTwice(s, id, data) ==
  [s EXCEPT !.calls = @ \o [n \in 1..2 |->
                              [id |-> id, data |-> data, state |-> "pending",
                               by |-> Current(s), event |-> NoEvent,
                               events |-> <<>>, destroyed |-> FALSE,
                               timeout |-> 60000]],
            !.dispatched[Current(s)].call = Len(s.calls) + 1]

\* makeRequest(ASR_GOT_API_URL, requestData) up to the pending promise; event
\* is what settled the promise, events all that the request has emitted
makeRequest(s, id, data) ==
  [s EXCEPT !.calls = Append(@, [id |-> id, data |-> data, state |-> "pending",
                                 by |-> Current(s), event |-> NoEvent,
                                 events |-> <<>>, destroyed |-> FALSE,
                                 timeout |-> 60000]),
            !.dispatched[Current(s)].call = Len(s.calls) + 1]

\* const context, const query
QueryOf(params) == Prop(OrElse(Prop(params, K.context), JObj(<<>>, <<>>)), K.query)

\* handleAsrGotQuery up to its await
handleAsrGotQuery(s, params, id) ==
  IF ~s.initialized
  THEN Reply(s, 2, ErrorResponse(id, Code.NotInitialized, Msg.NotInitialized))
  ELSE IF Throws(params) THEN Throw(s, TypeErrorMessage(params, K.context))
  ELSE IF ~Truthy(QueryOf(params))
  THEN Reply(s, 2, ErrorResponse(id, Code.InvalidParams, Msg.MissingQuery))
  ELSE makeRequest(s, id, [query |-> QueryOf(params), process_response |-> TRUE])

\* resolve(JSON.parse(responseData)), or the reject of its catch
ParsedBody(responseData) ==
  LET p == JsonParse(responseData) IN
  IF p.ok THEN [ok |-> TRUE, val |-> p.val, message |-> <<>>]
  ELSE [ok |-> FALSE, val |-> Undefined,
        message |-> Msg.ParseFailed \o SyntaxErrorMessage(responseData, p)]
\* a makeRequest that rejects with the error of the socket on a timeout too
RequestOutcomeUniform(ev) ==
  IF ev.kind = "end" THEN
    IF ev.status >= 200 /\ ev.status < 300 THEN ParsedBody(ReplyBodies[ev.body])
    ELSE [ok |-> FALSE, val |-> Undefined,
          message |-> Msg.StatusCode \o ToDecimal(ev.status)]
  ELSE [ok |-> FALSE, val |-> Undefined, message |-> Msg.SocketHangUp]

\* the promise of makeRequest settles on a backend event: 'end' resolves or
\* rejects it, 'timeout' rejects it, 'error' rejects it with the error the
\* request emitted
RequestOutcome(ev) ==
  IF ev.kind = "end" THEN
    IF ev.status >= 200 /\ ev.status < 300 THEN ParsedBody(ReplyBodies[ev.body])
    ELSE [ok |-> FALSE, val |-> Undefined,
          message |-> Msg.StatusCode \o ToDecimal(ev.status)]
  ELSE IF ev.kind = "timeout"
    THEN [ok |-> FALSE, val |-> Undefined, message |-> Msg.TimedOut]
  ELSE [ok |-> FALSE, val |-> Undefined, message |-> Msg[ev.body]]

\* what the promise settles to on each backend event
\* (f @@ <<>> is f with its values enumerated: each body is parsed once)
Outcomes == [ev \in BackendEvents |-> RequestOutcome(ev)] @@ <<>>

\* a promise that runs its reactions on every resolve and reject
ResumesAlways(call) == TRUE

\* the continuation of handleAsrGotQuery runs on the first resolve or reject
\* of the promise of makeRequest: a settled promise ignores the later ones
Resumes(call) == call.state = "pending"

\* the handlers of makeRequest run on an event of the request: the promise
\* keeps what it first settled to, and the 'timeout' handler destroys the
\* request; no handler runs when the connection is dropped in the middle of
\* the reply, and the promise stays as it is
Settle(call, ev) ==
  IF ev.kind = "aborted" THEN [call EXCEPT !.events = Append(@, ev)] ELSE
  [call EXCEPT !.state = "settled",
               !.event = IF call.state = "pending" THEN ev ELSE @,
               !.events = Append(@, ev),
               !.destroyed = @ \/ ev.kind = "timeout"]

\* a continuation that answers with the id of the request made last
ResponseIdOfLatest(s, c) == s.calls[Len(s.calls)].id

\* the id the continuation of handleAsrGotQuery answers with
ResponseId(s, c) == s.calls[c].id

\* the error response of the catch block of handleAsrGotQuery
QueryFailed(s, c, message) ==
  ErrorResponse(ResponseId(s, c), Code.Internal, Msg.Communicating \o message)

\* an assignment of session_id that is made whatever the reply holds
NextSessionIdAssigned(current, asrGotResponse) == Prop(asrGotResponse, K.session_id)

\* the value of sessionId after `if (asrGotResponse.session_id) sessionId = ...`
NextSessionId(current, asrGotResponse) ==
  IF Truthy(Prop(asrGotResponse, K.session_id))
  THEN Prop(asrGotResponse, K.session_id) ELSE current

\* choices && choices.length > 0, where the comparison does not throw
HasFirstChoice(asrGotResponse) ==
  /\ Truthy(Prop(asrGotResponse, K.choices))
  /\ HasLength(Prop(asrGotResponse, K.choices))
\* the extraction throws before the session id is looked at: the reply is
\* null, the length of choices has no primitive value to compare with 0, or
\* choices[0] is undefined or null
ThrowsEarly(asrGotResponse) ==
  \/ Throws(asrGotResponse)
  \/ /\ Truthy(Prop(asrGotResponse, K.choices))
     /\ NoPrimitive(Prop(Prop(asrGotResponse, K.choices), K.length))
  \/ HasFirstChoice(asrGotResponse) /\ Throws(First(Prop(asrGotResponse, K.choices)))
EarlyMessage(asrGotResponse) ==
  IF Throws(asrGotResponse) THEN TypeErrorMessage(asrGotResponse, K.choices)
  ELSE IF NoPrimitive(Prop(Prop(asrGotResponse, K.choices), K.length))
    THEN Msg.NoPrimitive
  ELSE TypeErrorMessage(First(Prop(asrGotResponse, K.choices)), K.message)

\* a claudeResponse without the default `|| ''`
ClaudeResponseUndefaulted(asrGotResponse) ==
  Prop(Prop(First(Prop(asrGotResponse, K.choices)), K.message), K.content)

\* let claudeResponse, as the response is built
ClaudeResponse(asrGotResponse) ==
  IF HasFirstChoice(asrGotResponse)
       /\ Truthy(Prop(First(Prop(asrGotResponse, K.choices)), K.message))
  THEN OrElse(Prop(Prop(First(Prop(asrGotResponse, K.choices)), K.message), K.content),
              JStr(<<>>))
  ELSE JStr(<<>>)
\* const asrGotResult
AsrGotResult(asrGotResponse) ==
  OrElse(Prop(asrGotResponse, K.asr_got_result), JObj(<<>>, <<>>))

\* a result that carries the default confidence whatever the reply holds
QueryResultDefaulting(asrGotResponse, session) ==
  [response |-> ClaudeResponse(asrGotResponse),
   reasoningTrace |-> extractReasoningTrace(AsrGotResult(asrGotResponse)),
   confidence |-> DefaultConfidence,
   sessionId |-> session]

\* the result object of the response of a query
QueryResult(asrGotResponse, session) ==
  [response |-> ClaudeResponse(asrGotResponse),
   reasoningTrace |-> extractReasoningTrace(AsrGotResult(asrGotResponse)),
   confidence |-> OrElse(Prop(AsrGotResult(asrGotResponse), K.confidence),
                         DefaultConfidence),
   sessionId |-> session]

\* a continuation whose catch block forgets the session
ResumeQueryForgetting(s, c, outcome) ==
  IF ~outcome.ok
  THEN [sessionId |-> JNull, response |-> QueryFailed(s, c, outcome.message)]
  ELSE IF ThrowsEarly(outcome.val)
  THEN [sessionId |-> JNull,
        response |-> QueryFailed(s, c, EarlyMessage(outcome.val))]
  ELSE IF TraceThrows(AsrGotResult(outcome.val))
  THEN [sessionId |-> JNull,
        response |-> QueryFailed(s, c, TraceErrorMessage(AsrGotResult(outcome.val)))]
  ELSE [sessionId |-> NextSessionId(s.sessionId, outcome.val),
        response |-> ResultResponse(ResponseId(s, c),
                       QueryResult(outcome.val, NextSessionId(s.sessionId, outcome.val)))]

\* handleAsrGotQuery after its await, to the response it returns: the new
\* value of sessionId and the response
ResumeQuery(s, c, outcome) ==
  IF ~outcome.ok
  THEN [sessionId |-> s.sessionId, response |-> QueryFailed(s, c, outcome.message)]
  ELSE IF ThrowsEarly(outcome.val)
  THEN [sessionId |-> s.sessionId,
        response |-> QueryFailed(s, c, EarlyMessage(outcome.val))]
  ELSE IF TraceThrows(AsrGotResult(outcome.val))
  THEN [sessionId |-> NextSessionId(s.sessionId, outcome.val),
        response |-> QueryFailed(s, c, TraceErrorMessage(AsrGotResult(outcome.val)))]
  ELSE [sessionId |-> NextSessionId(s.sessionId, outcome.val),
        response |-> ResultResponse(ResponseId(s, c),
                       QueryResult(outcome.val, NextSessionId(s.sessionId, outcome.val)))]

\* the dispatch is recorded
Dispatching(s, message) ==
  [s EXCEPT !.dispatched = Append(@,
     [id |-> IF Throws(message) THEN Undefined ELSE Prop(message, K.id),
      method |-> IF Throws(message) THEN Undefined ELSE Prop(message, K.method),
      params |-> IF Throws(message) THEN Undefined ELSE Prop(message, K.params),
      initialized |-> s.initialized,
      everReady |-> s.everReady, stopped |-> s.stopped,
      frame |-> Len(s.decoded), call |-> 0, launch |-> 0])]

\* the catch block of processMessage
Caught(h, id) ==
  IF h.thrown # <<>>
  THEN Reply([h EXCEPT !.thrown = <<>>], 2,
             ErrorResponse(OrElse(id, JNum(0)), Code.Internal, Msg.Internal \o h.thrown))
  ELSE h

\* the switch of processMessage
Route(s, id, method, params) ==
  IF method = JStr(Method.initialize) THEN handleInitialize(s, params, id)
  ELSE IF method = JStr(Method.shutdown) THEN handleShutdown(s, params, id)
  ELSE IF method = JStr(Method.query) THEN handleAsrGotQuery(s, params, id)
  ELSE IF method = JStr(Method.cancelled) THEN s
  ELSE Reply(s, 1, ErrorResponse(id, Code.MethodNotFound, Msg.MethodNotFound \o ToStr(method)))

\* processMessage up to the point where it returns or awaits; on a message
\* that is null the destructuring throws, and so does the catch block; on a
\* method or an id that has no string the template literal of the log
\* throws before the switch, and the catch block answers
processMessage(s, message) ==
  IF Throws(message) THEN Dispatching(s, message)
  ELSE IF NoPrimitive(Prop(message, K.method)) \/ NoPrimitive(Prop(message, K.id))
    THEN Reply(Dispatching(s, message), 1,
               ErrorResponse(OrElse(Prop(message, K.id), JNum(0)), Code.Internal,
                             Msg.Internal \o Msg.NoPrimitive))
  ELSE Caught(Route(Dispatching(s, message), Prop(message, K.id),
                    Prop(message, K.method), Prop(message, K.params)),
              Prop(message, K.id))

----------------------------------------------------------------------------
(* onStdinData *)

RECURSIVE DecodeLoop(_)
\* the try block: JSON.parse, and processMessage when it did not throw
Handled(s, parsed) == IF parsed.ok THEN processMessage(s, parsed.val) ELSE s
\* "Extract the message": the payload leaves the buffer
Extract(s, messageJson, parsed) ==
  DecodeLoop(Handled([s EXCEPT !.buffer = Drop(@, s.contentLength),
                               !.contentLength = -1,
                               !.decoded = Append(@, [declared |-> s.contentLength,
                                                      text |-> messageJson,
                                                      parsed |-> parsed.ok])],
                     parsed))
\* a check that waits for one unit more than the payload has
AccumulateLate(s) ==
  IF Len(s.buffer) <= s.contentLength THEN s
  ELSE Extract(s, Take(s.buffer, s.contentLength),
               JsonParse(Take(s.buffer, s.contentLength)))
\* "Check if we have enough data"
Accumulate(s) ==
  IF Len(s.buffer) < s.contentLength THEN s
  ELSE Extract(s, Take(s.buffer, s.contentLength),
               JsonParse(Take(s.buffer, s.contentLength)))
\* "No content length determined yet"
Seek(s, headerMatch) ==
  IF ~headerMatch.found THEN s
  ELSE Accumulate([s EXCEPT !.contentLength = ParseInt(headerMatch.group1),
                            !.buffer = Drop(@, headerMatch.index + headerMatch.length)])
\* the while loop of onStdinData, from one evaluation of its condition
DecodeLoop(s) ==
  IF Len(s.buffer) = 0 THEN s
  ELSE IF s.contentLength < 0 THEN Seek(s, HeaderMatch(s.buffer))
  ELSE Accumulate(s)

\* the order in which the queued writes run: a response that processMessage
\* returned without awaiting is written one reaction earlier
WriteOrder(micro) ==
  SelectSeq(micro, LAMBDA m : m.tick = 1) \o SelectSeq(micro, LAMBDA m : m.tick = 2)

\* the 'data' handler: the chunk is appended and onStdinData runs
onStdinData(s, chunk) ==
  DecodeLoop([s EXCEPT !.buffer = @ \o Utf8Decode(chunk)])


----------------------------------------------------------------------------
(* The write of a response: JSON.stringify and the frame *)

\* JSON.stringify of a string: quoted, with ", \ and the control characters
\* escaped, and a surrogate without its partner escaped too; the other
\* characters outside ASCII stay as they are
JsonString(chars) ==
  LET high(i) == i \in 1..Len(chars) /\ Len(chars[i]) = 6
                   /\ CodeOf(chars[i]) \in 55296..56319
      low(i) == i \in 1..Len(chars) /\ Len(chars[i]) = 6
                  /\ CodeOf(chars[i]) \in 56320..57343
      u(v) == <<Ch.BSL, "u", Ch.hex[(v \div 4096) + 1], Ch.hex[((v \div 256) % 16) + 1],
                Ch.hex[((v \div 16) % 16) + 1], Ch.hex[(v % 16) + 1]>>
  IN
  <<Ch.DQ>>
    \o Flatten([i \in 1..Len(chars) |->
         CASE chars[i] = Ch.DQ -> <<Ch.BSL, Ch.DQ>>
           [] chars[i] = Ch.BSL -> <<Ch.BSL, Ch.BSL>>
           [] chars[i] = Ch.LF -> <<Ch.BSL, "n">>
           [] chars[i] = Ch.CR -> <<Ch.BSL, "r">>
           [] chars[i] = Ch.TAB -> <<Ch.BSL, "t">>
           [] chars[i] = Ch.FF -> <<Ch.BSL, "f">>
           [] Len(chars[i]) = 6 ->
                IF CodeOf(chars[i]) = 8 THEN <<Ch.BSL, "b">>
                ELSE IF CodeOf(chars[i]) < 32 THEN u(CodeOf(chars[i]))
                ELSE IF (high(i) /\ ~low(i + 1)) \/ (low(i) /\ ~high(i - 1))
                  THEN u(CodeOf(chars[i]))
                ELSE <<chars[i]>>
           [] OTHER -> <<chars[i]>>])
    \o <<Ch.DQ>>

\* JSON.stringify of a value: the members of an object in the order of its
\* keys, an undefined element of an array and an infinite number written as
\* null, a finite number, a boolean and null as String writes them
RECURSIVE JsonStringify(_)
JsonStringify(v) ==
  CASE v.t = "str" -> JsonString(v.v)
    [] v.t = "arr" ->
         <<"[">> \o Flatten([i \in 1..Len(v.v) |->
                       (IF i > 1 THEN <<",">> ELSE <<>>)
                         \o (IF v.v[i].t = "undefined" THEN Lit.null
                             ELSE JsonStringify(v.v[i]))])
                 \o <<"]">>
    [] v.t = "obj" ->
         <<"{">> \o Flatten([i \in 1..Len(v.k) |->
                       (IF i > 1 THEN <<",">> ELSE <<>>)
                         \o JsonString(v.k[i]) \o <<":">> \o JsonStringify(v.v[v.k[i]])])
                 \o <<"}">>
    [] v.t = "inf" -> Lit.null
    [] OTHER -> ToStr(v)

\* JSON.stringify of the descriptor handleInitialize answers with
InitializeResultJson ==
  <<"{","\"","c","a","p","a","b","i","l","i","t","i","e","s","\"",":","{","\"","c","o","n","t","e","x","t","C","a","p","a","b","i","l","i","t","i","e","s","\"",":","{","\"","d","e","f","a","u","l","t","C","o","n","t","e","x","t","\"",":","{","\"","s","c","h","e","m","a","\"",":","{","\"","t","y","p","e","\"",":","\"","o","b","j","e","c","t","\"",",","\"","p","r","o","p","e","r","t","i","e","s","\"",":","{","\"","q","u","e","r","y","\"",":","{","\"","t","y","p","e","\"",":","\"","s","t","r","i","n","g","\"",",","\"","d","e","s","c","r","i","p","t","i","o","n","\"",":","\"","T","h","e"," ","r","e","s","e","a","r","c","h"," ","q","u","e","r","y"," ","t","o"," ","a","n","a","l","y","z","e"," ","u","s","i","n","g"," ","A","S","R","-","G","o","T","\"","}","}",",","\"","r","e","q","u","i","r","e","d","\"",":","[","\"","q","u","e","r","y","\"","]","}",",","\"","e","x","a","m","p","l","e","V","a","l","u","e","\"",":","{","\"","q","u","e","r","y","\"",":","\"","W","h","a","t"," ","i","s"," ","t","h","e"," ","r","e","l","a","t","i","o","n","s","h","i","p"," ","b","e","t","w","e","e","n"," ","a","u","t","o","p","h","a","g","y"," ","a","n","d"," ","n","e","u","r","o","d","e","g","e","n","e","r","a","t","i","v","e"," ","d","i","s","e","a","s","e","s","?","\"","}","}","}","}",",","\"","s","e","r","v","e","r","I","n","f","o","\"",":","{","\"","n","a","m","e","\"",":","\"","a","s","r","-","g","o","t","-","m","c","p","-","s","e","r","v","e","r","\"",",","\"","v","e","r","s","i","o","n","\"",":","\"","1",".","0",".","0","\"","}","}">>

\* const responseJson = JSON.stringify(response): the keys in the order the
\* handlers wrote them, a key whose value is undefined left out
ResponseJson(response) ==
  <<"{","\"","j","s","o","n","r","p","c","\"",":","\"","2",".","0","\"">>
    \o (IF response.id.t = "undefined" THEN <<>>
        ELSE <<",","\"","i","d","\"",":">> \o JsonStringify(response.id))
    \o (IF IsError(response)
        THEN <<",","\"","e","r","r","o","r","\"",":","{","\"","c","o","d","e","\"",":">> \o ToStr(JNum(response.error.code))
               \o <<",","\"","m","e","s","s","a","g","e","\"",":">> \o JsonString(response.error.message) \o <<"}">>
        ELSE <<",","\"","r","e","s","u","l","t","\"",":">>
               \o (IF response.result = JNull THEN Lit.null
                   ELSE IF "capabilities" \in DOMAIN response.result
                   THEN InitializeResultJson
                   ELSE <<"{","\"","r","e","s","p","o","n","s","e","\"",":">> \o JsonStringify(response.result.response)
                          \o <<",","\"","r","e","a","s","o","n","i","n","g","T","r","a","c","e","\"",":">>
                          \o JsonString(response.result.reasoningTrace)
                          \o <<",","\"","c","o","n","f","i","d","e","n","c","e","\"",":">>
                          \o JsonStringify(response.result.confidence)
                          \o <<",","\"","s","e","s","s","i","o","n","I","d","\"",":">>
                          \o JsonStringify(response.result.sessionId) \o <<"}">>))
    \o <<"}">>

\* a write that declares the length of the payload in UTF-16 code units
StdoutWriteUnits(response) ==
  Utf8Encode(HeaderPrefix \o ToDecimal(Len(ResponseJson(response))) \o HeaderEnd
               \o ResponseJson(response))

\* process.stdout.write(`Content-Length: ${responseLength}\r\n\r\n${responseJson}`):
\* the bytes written for a response
StdoutWrite(response) ==
  Utf8Encode(HeaderPrefix \o ToDecimal(ByteLength(ResponseJson(response))) \o HeaderEnd
               \o ResponseJson(response))
----------------------------------------------------------------------------
(* Initial state and actions *)

Init ==
  /\ env \in Profiles
  /\ wire = <<>>
  /\ buffer = <<>>
  /\ contentLength = -1
  /\ initialized = FALSE
  /\ sessionId = JNull
  /\ launches = <<>>
  /\ calls = <<>>
  /\ out = <<>>
  /\ sent = <<>>
  /\ decoded = <<>>
  /\ dispatched = <<>>
  /\ outOf = <<>>
  /\ everReady = FALSE
  /\ stopped = FALSE
  /\ stops = <<>>
  /\ exited = "no"

\* the client writes one more frame to the bridge's stdin
ClientSend ==
  \E p \in (IF sent = <<>> THEN env.first ELSE env.pool) :
    /\ exited = "no"
    /\ env.frames > 0
    /\ p = "initialize" =>
         Cardinality({i \in 1..Len(sent) : sent[i] = "initialize"}) < MaxInits
    /\ wire' = wire \o FrameBytes(Payloads[p])
    /\ sent' = Append(sent, p)
    /\ env' = [env EXCEPT !.frames = @ - 1]
    /\ UNCHANGED <<buffer, contentLength, initialized, sessionId, launches, calls,
                   out, decoded, dispatched, outOf, everReady, stopped, stops,
                   exited>>

\* the client writes a frame that is not well formed
ClientFault ==
  \E kind \in env.faults :
    /\ exited = "no"
    /\ env.fault = "none"
    /\ wire' = wire \o Utf8Encode(FaultyFrameText(kind, Payloads.ping))
    /\ env' = [env EXCEPT !.fault = kind, !.faultAt = Len(sent)]
    /\ UNCHANGED <<buffer, contentLength, initialized, sessionId, launches, calls,
                   out, sent, decoded, dispatched, outOf, everReady, stopped,
                   stops, exited>>

\* the sizes of the chunk the pipe may deliver next
ChunkSizes == IF env.chunks = "whole" THEN {Len(wire)} ELSE {1, Len(wire)}

\* the state the handlers left, and the responses written from it
Becomes(s) ==
  /\ buffer' = s.buffer
  /\ contentLength' = s.contentLength
  /\ initialized' = s.initialized
  /\ sessionId' = s.sessionId
  /\ launches' = s.launches
  /\ calls' = s.calls
  /\ decoded' = s.decoded
  /\ dispatched' = s.dispatched
  /\ everReady' = s.everReady
  /\ stopped' = s.stopped
  /\ stops' = s.stops
  /\ out' = out \o [i \in 1..Len(s.micro) |-> WriteOrder(s.micro)[i].response]
  /\ outOf' = outOf \o [i \in 1..Len(s.micro) |-> WriteOrder(s.micro)[i].of]

\* process.stdin.on('data', ...): a chunk arrives, onStdinData runs and the
\* responses of the handlers that did not suspend are written; x is how a
\* docker-compose down run by a handler ends
Deliver ==
  \E k \in ChunkSizes, x \in env.execSync :
    /\ exited = "no"
    /\ k >= 1
    /\ Becomes(onStdinData([Machine EXCEPT !.execSync = x], Take(wire, k)))
    /\ wire' = Drop(wire, k)
    /\ UNCHANGED <<env, sent, exited>>

\* a health probe resolves (the first one, or the one that follows a delay
\* of the polling loop) and startDockerContainers runs on to its next probe
\* or to its return
ProbeCompletes ==
  \E l \in 1..Len(launches), o \in env.probes :
    /\ exited = "no"
    /\ launches[l].pc # "done"
    /\ Becomes(AfterProbe([Machine EXCEPT !.launches[l].seen = o], l,
                           checkASRGotRunning(o)))
    /\ UNCHANGED <<env, wire, sent, exited>>

\* the response of a query is written
Answered(c, r) ==
  /\ sessionId' = r.sessionId
  /\ out' = Append(out, r.response)
  /\ outOf' = Append(outOf, calls[c].by)

\* the HTTP request of a query emits an event: the handlers of makeRequest
\* run and, when that settles the promise, handleAsrGotQuery resumes and its
\* response is written.  A connection can be dropped only as long as the
\* request has emitted nothing, and a request whose connection was dropped
\* emits nothing more.
BackendEvent ==
  \E c \in 1..Len(calls), ev \in env.events :
    /\ exited = "no"
    /\ Len(calls[c].events) < env.perCall
    /\ \A e \in 1..Len(calls[c].events) : calls[c].events[e].kind # "aborted"
    /\ ev.kind = "aborted" => calls[c].events = <<>>
    /\ IF Resumes(calls[c]) /\ ev.kind # "aborted"
       THEN Answered(c, ResumeQuery(Machine, c, Outcomes[ev]))
       ELSE UNCHANGED <<sessionId, out, outOf>>
    /\ calls' = [calls EXCEPT ![c] = Settle(@, ev)]
    /\ UNCHANGED <<env, wire, buffer, contentLength, initialized, launches, sent,
                   decoded, dispatched, everReady, stopped, stops, exited>>

\* the process ends: on SIGINT the handler runs stopDockerContainers() and
\* calls process.exit(0); SIGTERM has no handler and ends the process at
\* once; when stdin has ended and neither a launch nor an HTTP request is
\* pending, nothing keeps the event loop alive and the process exits
ProcessEnds ==
  \E cause \in env.ends, x \in env.execSync :
    /\ exited = "no"
    /\ cause = "stdinEnd" =>
         /\ wire = <<>>
         /\ \A l \in 1..Len(launches) : launches[l].pc = "done"
         /\ \A c \in 1..Len(calls) : calls[c].state = "settled"
    /\ exited' = cause
    /\ stops' = IF cause = "SIGINT"
                THEN stopDockerContainers([Machine EXCEPT !.execSync = x], 0).stops
                ELSE stops
    /\ UNCHANGED <<env, wire, buffer, contentLength, initialized, sessionId,
                   launches, calls, out, sent, decoded, dispatched, outOf,
                   everReady, stopped>>

Next ==
  ClientSend \/ ClientFault \/ Deliver \/ ProbeCompletes \/ BackendEvent \/ ProcessEnds

Spec == Init /\ [][Next]_vars


\* The runs in which the bytes written to the pipe of stdin are delivered:
\* the event loop of a process that runs emits 'data' for them.  Nothing
\* in the code makes a health probe or an HTTP request end: the timeout of
\* their options counts the time the socket is idle, and a peer that keeps
\* the socket busy never lets it fire.
\* The steps that take bytes from the pipe are the Deliver steps, and one
\* is possible exactly when a Deliver step is.
LiveSpec ==
  /\ Spec
  /\ WF_wire(\E k \in ChunkSizes : exited = "no" /\ k >= 1 /\ wire' = Drop(wire, k))

----------------------------------------------------------------------------
(* Reading the history *)

\* the positions in out of the responses written for dispatch d
AnswersTo(d) == {k \in 1..Len(out) : outOf[k] = d}
\* the dispatches of asr_got.query requests
Queries == {d \in 1..Len(dispatched) : dispatched[d].method = JStr(Method.query)}
\* the not-initialized error that answers dispatch d
NotInitializedFor(d) ==
  ErrorResponse(dispatched[d].id, Code.NotInitialized, Msg.NotInitialized)
\* the parsed body of the 200 reply that settled call c
OwnReply(c) == Outcomes[calls[c].event].val
\* the session id in store when response k was built: the session_id of
\* the latest reply handled before k that holds one (the query may have
\* been answered with a result, or with the error of a trace that cannot be
\* read, which is met after the assignment), null when there is none
StoredBefore(k) ==
  LET storing ==
        {j \in 1..(k - 1) :
           /\ dispatched[outOf[j]].call # 0
           /\ LET outcome == Outcomes[calls[dispatched[outOf[j]].call].event]
              IN  /\ outcome.ok
                  /\ ~ThrowsEarly(outcome.val)
                  /\ Truthy(Prop(outcome.val, K.session_id))}
  IN  IF storing = {} THEN JNull
      ELSE Prop(OwnReply(dispatched[outOf[Max(storing)]].call), K.session_id)
\* response k carries the text, the trace and the confidence of reply r and
\* the id of the request it answers
CarriesReply(k, r) ==
  /\ IsResult(out[k])
  /\ out[k].id = dispatched[outOf[k]].id
  /\ out[k].result.response = ClaudeResponse(r)
  /\ out[k].result.reasoningTrace = extractReasoningTrace(AsrGotResult(r))
  /\ out[k].result.confidence =
       OrElse(Prop(AsrGotResult(r), K.confidence), DefaultConfidence)
\* the responses of the queries the backend answered with a 200 reply
RepliedTo ==
  {k \in 1..Len(out) :
     /\ dispatched[outOf[k]].call # 0
     /\ calls[dispatched[outOf[k]].call].event \in Replies}
CallOf(k) == dispatched[outOf[k]].call

\* the payloads onStdinData extracted
DecodedTexts == [n \in 1..Len(decoded) |-> decoded[n].text]
\* payload p is valid JSON
ValidJson(p) == JsonParse(Payloads[p]).ok
\* the id member of payload p
IdOf(p) == Prop(JsonParse(Payloads[p]).val, K.id)
\* the ids of the valid payloads among names, in order
ValidIds(names) ==
  [i \in 1..Len(SelectSeq(names, ValidJson)) |-> IdOf(SelectSeq(names, ValidJson)[i])]
\* the ids of the messages dispatched after the first n dispatches
DispatchedIdsAfter(all, n) == [i \in 1..(Len(all) - n) |-> all[n + i].id]
\* the last m frames the client wrote, and the bytes of a run of frames
LastSent(m) == SubSeq(sent, Len(sent) - m + 1, Len(sent))
WireOf(names) == Flatten([i \in 1..Len(names) |-> FrameBytes(Payloads[names[i]])])

\* the id a reader recovers from a payload that is not valid JSON: the number
\* after the first "id": in it, 0 when there is none
IdKey == <<"\"","i","d","\"",":">>
RecoveredId(text) ==
  LET d == Min({i \in 1..Len(text) : StartsWithAt(text, i, IdKey)}) + Len(IdKey) IN
  IF (\E i \in 1..Len(text) : StartsWithAt(text, i, IdKey)) /\ DigitRunEnd(text, d) > d
  THEN JNum(ParseInt(SubSeq(text, d, DigitRunEnd(text, d) - 1)))
  ELSE JNum(0)

----------------------------------------------------------------------------
(* Correlation of queries and replies *)

\* C1, as amended: the response to a query the backend answered with a 200
\* reply carries the id of that query and the response text, the reasoning
\* trace and the confidence of the reply to its own HTTP call, in every order
\* of completion; its sessionId is the session_id of its own reply when that
\* is not empty, and otherwise the session id most recently stored, which may
\* come from the reply to another query.
C1_OwnReply ==
  \A k \in RepliedTo :
    /\ CarriesReply(k, OwnReply(CallOf(k)))
    /\ out[k].result.sessionId =
         IF Truthy(Prop(OwnReply(CallOf(k)), K.session_id))
         THEN Prop(OwnReply(CallOf(k)), K.session_id)
         ELSE StoredBefore(k)

\* no two HTTP calls were made for requests with the same id
DistinctIds == \A c1, c2 \in 1..Len(calls) : c1 # c2 => calls[c1].id # calls[c2].id

\* C1 as stated: when the queries have different ids, every value of the
\* response, the sessionId too, comes from the reply to the query's own HTTP
\* call: the sessionId is the session_id of that reply, null when the reply
\* has none.
C1_OnlyOwnValues ==
  \A k \in RepliedTo :
    DistinctIds =>
    /\ CarriesReply(k, OwnReply(CallOf(k)))
    /\ out[k].result.sessionId = OrElse(Prop(OwnReply(CallOf(k)), K.session_id), JNull)

\* two queries were in flight together and the backend answered the later
\* one first, with a different reply
C1_OutOfOrder ==
  \E k1, k2 \in RepliedTo :
    /\ k1 < k2
    /\ outOf[k1] > outOf[k2]
    /\ out[k1].id # out[k2].id
    /\ calls[CallOf(k1)].event # calls[CallOf(k2)].event

----------------------------------------------------------------------------
(* The initialized gate *)

\* C2 as stated: a query handled after a shutdown request has been handled is
\* not forwarded to the backend and is answered with the not-initialized
\* error.
C2_StoppedRejects ==
  \A d \in Queries :
    dispatched[d].stopped =>
      /\ dispatched[d].call = 0
      /\ \A k \in AnswersTo(d) : out[k] = NotInitializedFor(d)

\* C3 as stated: a query handled while no startDockerContainers has returned
\* true is answered with error -32002 'Server not initialized' carrying its
\* id, and no HTTP call is made for it.
C3_NeverReadyRejects ==
  \A d \in Queries :
    ~dispatched[d].everReady =>
      /\ dispatched[d].call = 0
      /\ \A c \in 1..Len(calls) : calls[c].by # d
      /\ AnswersTo(d) # {}
      /\ \A k \in AnswersTo(d) : out[k] = NotInitializedFor(d)

\* C4 as stated: a query with a non-empty text that is handled after some
\* startDockerContainers has returned true, no shutdown having been handled,
\* is delegated to the backend and is not answered with the not-initialized
\* error.
C4_ReadyDelegates ==
  \A d \in Queries :
    (/\ dispatched[d].everReady
     /\ ~dispatched[d].stopped
     /\ QueryOf(dispatched[d].params).t = "str"
     /\ QueryOf(dispatched[d].params).v # <<>>) =>
      /\ dispatched[d].call # 0
      /\ \A k \in AnswersTo(d) : out[k] # NotInitializedFor(d)

----------------------------------------------------------------------------
(* The initialize response and the background launch *)

\* the response to the initialize request that started launch l is written
InitializeAnswered(l) ==
  \E k \in AnswersTo(launches[l].by) :
    out[k] = ResultResponse(dispatched[launches[l].by].id, InitializeResult)
\* a step of a launch changes nothing but the launch itself and the
\* initialized flag (everReady records the flag's history)
LaunchStepFrame ==
  (Len(launches') = Len(launches) /\ launches' # launches) =>
    UNCHANGED <<out, outOf, sessionId, buffer, contentLength, calls, wire>>

\* C5: the response to initialize does not wait for the launch: in every
\* state in which a launch exists, whether its first probe is still pending,
\* it is polling or it has returned true or false, the response to its
\* initialize request is already written; and a step of the launch writes
\* nothing and updates nothing but the initialized flag.
C5_InitializeDoesNotWait ==
  /\ [](\A l \in 1..Len(launches) : InitializeAnswered(l))
  /\ [][LaunchStepFrame]_vars

\* the response to initialize is written and no probe of its launch has
\* resolved yet
C5_AnsweredBeforeProbe ==
  \E l \in 1..Len(launches) :
    /\ launches[l].pc = "check"
    /\ InitializeAnswered(l)

----------------------------------------------------------------------------
(* The decoder *)

\* every frame the client has written is well formed
WellFramed == env.fault = "none"

\* C6 as stated: however the stream of well-formed frames is cut into
\* chunks, the payloads onStdinData extracts are the payloads that were
\* framed, in order and each identical to what was encoded; when every byte
\* has been delivered, all of them.
C6_RoundTrip ==
  WellFramed =>
    /\ Len(decoded) <= Len(sent)
    /\ \A n \in 1..Len(decoded) : decoded[n].text = Payloads[sent[n]]
    /\ wire = <<>> => DecodedTexts = [i \in 1..Len(sent) |-> Payloads[sent[i]]]

\* C7 as stated: each extracted payload is exactly the declared number of
\* bytes, and once every byte of the frames written has been delivered no
\* frame is left waiting: the buffer is empty and the decoder seeks a header.
C7_ExactBytes ==
  WellFramed =>
    /\ \A n \in 1..Len(decoded) : ByteLength(decoded[n].text) = decoded[n].declared
    /\ wire = <<>> => (buffer = <<>> /\ contentLength = -1)

\* one chunk brings the last m frames the client wrote, whole, to a decoder
\* with an empty buffer
WholeFrames(m) ==
  /\ buffer = <<>>
  /\ contentLength = -1
  /\ wire = WireOf(LastSent(m))
  /\ wire' = <<>>
\* C8 as stated: a single chunk that holds k complete frames causes, within
\* the one onStdinData call, one dispatch for each of them that is a
\* message, in the order of the frames.
C8_DispatchPerFrame ==
  [][\A m \in 1..Len(sent) :
       WholeFrames(m) =>
         DispatchedIdsAfter(dispatched', Len(dispatched)) = ValidIds(LastSent(m))]_vars

\* C9 as stated: a payload that is not valid JSON causes no dispatch and does
\* not disturb framing: once every byte has been delivered the decoder seeks
\* a header with an empty buffer, and the messages dispatched are the valid
\* payloads that were framed, in order.
C9_BadJsonIsolated ==
  /\ \A d \in 1..Len(dispatched) : decoded[dispatched[d].frame].parsed
  /\ (WellFramed /\ wire = <<>> /\ \E i \in 1..Len(sent) : ~ValidJson(sent[i])) =>
       /\ buffer = <<>>
       /\ contentLength = -1
       /\ DispatchedIdsAfter(dispatched, 0) = ValidIds(sent)

\* C10 as stated: every extracted payload that is not valid JSON is answered
\* with an error response whose id is the recovered id or 0.
C10_ParseErrorAnswered ==
  \A n \in 1..Len(decoded) :
    (WellFramed /\ ~decoded[n].parsed) =>
      \E k \in 1..Len(out) :
        /\ IsError(out[k])
        /\ out[k].id \in {JNum(0), RecoveredId(decoded[n].text)}

----------------------------------------------------------------------------
(* Framing faults *)

\* the frames `after`, written after the faulty one, are the last ones
\* decoded, and the messages among them the last ones dispatched
ResynchronizedFor(after) ==
  /\ Len(decoded) >= Len(after)
  /\ Drop(DecodedTexts, Len(decoded) - Len(after)) =
       [i \in 1..Len(after) |-> Payloads[after[i]]]
  /\ Len(dispatched) >= Len(ValidIds(after))
  /\ DispatchedIdsAfter(dispatched, Len(dispatched) - Len(ValidIds(after))) =
       ValidIds(after)

\* C11 as stated: after a frame that is not well formed (a header that is
\* no header, a declared length that is not the length of the payload),
\* every well-formed frame written after it is decoded and dispatched once
\* its bytes have been delivered.
C11_Resynchronizes ==
  (~WellFramed /\ wire = <<>>) => ResynchronizedFor(Drop(sent, env.faultAt))

----------------------------------------------------------------------------
(* The events of an HTTP request *)

\* the error response that answers the request of call c when `message`
\* rejected its promise
FailedWith(c, message) ==
  ErrorResponse(calls[c].id, Code.Internal, Msg.Communicating \o message)

\* C12: each request receives at most one response: no dispatch is answered
\* twice, and the one response of a forwarded query is the one its first
\* event calls for (the timeout error when the timeout fired first, a result
\* when a 200 reply came first), whatever the request emits afterwards.
C12_AtMostOneResponse ==
  /\ \A d \in 1..Len(dispatched) : Cardinality(AnswersTo(d)) <= 1
  /\ \A c \in 1..Len(calls) :
       calls[c].state = "settled" =>
         \E k \in AnswersTo(calls[c].by) :
           /\ AnswersTo(calls[c].by) = {k}
           /\ calls[c].event.kind = "timeout" => out[k] = FailedWith(c, Msg.TimedOut)
           /\ calls[c].event \in Replies => CarriesReply(k, OwnReply(c))

\* the timeout of a request fired, the timeout error was written, and the
\* reply of the backend arrived afterwards
C12_ReplyAfterTimeout ==
  \E c \in 1..Len(calls) :
    /\ Len(calls[c].events) >= 2
    /\ calls[c].events[1].kind = "timeout"
    /\ calls[c].events[2] \in Replies
    /\ \E k \in AnswersTo(calls[c].by) : out[k] = FailedWith(c, Msg.TimedOut)

\* the calls whose promise the event of kind `kind` settled
SettledBy(kind) ==
  {c \in 1..Len(calls) : calls[c].state = "settled" /\ calls[c].event.kind = kind}

\* C13: a forwarded query whose timeout fires first has its HTTP request
\* destroyed and is answered with the error 'Request timed out', and that
\* response differs from the one a query with the same id gets when its
\* request fails with a network error.
C13_TimeoutDistinct ==
  \A c \in SettledBy("timeout") :
    /\ calls[c].destroyed
    /\ \A k \in AnswersTo(calls[c].by) :
         /\ out[k] = FailedWith(c, Msg.TimedOut)
         /\ \A e \in SettledBy("error") : \A j \in AnswersTo(calls[e].by) :
              /\ IsError(out[j])
              /\ calls[e].id = calls[c].id => out[j] # out[k]

\* one query timed out and another with the same id failed with a network
\* error, and both are answered
C13_TimedOutAndFailed ==
  \E c \in SettledBy("timeout"), e \in SettledBy("error") :
    /\ calls[c].id = calls[e].id
    /\ AnswersTo(calls[c].by) # {}
    /\ AnswersTo(calls[e].by) # {}

----------------------------------------------------------------------------
(* Notifications *)

\* the dispatches of notifications/cancelled, and the request id one names
Cancellations ==
  {d \in 1..Len(dispatched) : dispatched[d].method = JStr(Method.cancelled)}
RequestIdKey == <<"r","e","q","u","e","s","t","I","d">>
\* the calls in flight that a cancellation handled after their query names
CancelledInFlight ==
  {c \in 1..Len(calls) :
     /\ calls[c].state = "pending"
     /\ \E d \in Cancellations : d > calls[c].by /\ Prop(dispatched[d].params, RequestIdKey) = calls[c].id}

\* C14 as stated: once a notifications/cancelled message has named the id
\* of a query that is in flight, no response is written for that query,
\* whether the backend answers later or the timeout fires.
C14_CancelledNeverAnswered ==
  [][\A c \in CancelledInFlight :
       \A k \in 1..Len(out') : outOf'[k] # calls[c].by]_vars

\* one chunk brings one frame, whole, to a decoder with an empty buffer, and
\* the message in it is a cancellation
CancellationHandled ==
  /\ Len(dispatched') = Len(dispatched) + 1
  /\ dispatched'[Len(dispatched')].method = JStr(Method.cancelled)
  /\ sent # <<>>
  /\ WholeFrames(1)

\* C15 as stated: handling a notifications/cancelled message writes no
\* frame, no cancellation is ever answered, and when the message names no
\* request in flight the initialized flag, the session id and the state of
\* the decoder are after the step what they were before it.
C15_CancellationSilent ==
  /\ [](\A d \in Cancellations : AnswersTo(d) = {})
  /\ [][CancellationHandled =>
          /\ UNCHANGED <<out, outOf, launches, calls>>
          /\ (\A c \in 1..Len(calls) :
                calls[c].state = "pending" =>
                  calls[c].id # Prop(dispatched'[Len(dispatched')].params, RequestIdKey))
               => UNCHANGED <<initialized, sessionId, buffer, contentLength>>]_vars

\* C16 as stated: a message that has no id is a notification and is never
\* answered, whatever its method.
C16_NotificationsSilent ==
  \A d \in 1..Len(dispatched) :
    dispatched[d].id = Undefined => AnswersTo(d) = {}

----------------------------------------------------------------------------
(* startDockerContainers *)

\* C17: a startDockerContainers whose first probe reports READY returns true
\* after that one health call and spawns nothing, so calls made one after
\* the other while the backend stays READY spawn nothing in total.
C17_HealthyNoLaunch ==
  \A l \in 1..Len(launches) :
    launches[l].first = "ready" =>
      /\ launches[l].pc = "done"
      /\ launches[l].result = "true"
      /\ launches[l].probes = 1
      /\ launches[l].spawns = 0
      /\ \A m \in 1..Len(launches) : launches[m].first = "ready" => launches[m].spawns = 0

\* startDockerContainers was called twice, the second time after the first
\* call had returned true, and both found the backend READY at once
C17_TwiceWhileReady ==
  \E l, m \in 1..Len(launches) :
    /\ l < m
    /\ launches[l].first = "ready"
    /\ launches[m].first = "ready"
    /\ dispatched[launches[m].by].everReady

\* the budget of one startDockerContainers: docker-compose up is spawned
\* once, after the first probe failed and only then; each probe after that
\* is one attempt of the loop; true is returned at the first probe that
\* reports READY and false after MaxAttempts failed attempts
WithinBudget(l) ==
  /\ launches[l].spawns = (IF launches[l].first = "failed" THEN 1 ELSE 0)
  /\ launches[l].i <= MaxAttempts
  /\ launches[l].probes <= 1 + MaxAttempts
  /\ launches[l].result = "false" =>
       launches[l].i = MaxAttempts /\ launches[l].probes = 1 + MaxAttempts
  /\ launches[l].result = "true" => launches[l].probes = 1 + launches[l].i
                                      + (IF launches[l].first = "failed" THEN 1 ELSE 0)
  /\ (launches[l].pc = "done") = (launches[l].result # "pending")

\* C18 as stated: every startDockerContainers keeps to its budget, and once
\* one has returned false every query handled after that, with no initialize
\* and no shutdown handled in between, is answered not-initialized.
C18_BudgetThenRejected ==
  \A l \in 1..Len(launches) :
    /\ WithinBudget(l)
    /\ launches[l].result = "false" =>
         \A d \in Queries :
           (/\ d > launches[l].at
            /\ \A r \in (launches[l].at + 1)..d :
                 dispatched[r].method \notin {JStr(Method.initialize),
                                              JStr(Method.shutdown)}) =>
             /\ dispatched[d].call = 0
             /\ \A k \in AnswersTo(d) : out[k] = NotInitializedFor(d)

\* the launch of the first initialize is polling and no probe has succeeded
FirstLaunchPolling ==
  /\ launches # <<>>
  /\ launches[1].pc = "poll"
  /\ ~everReady

\* C19 as stated: a query that is handled while the launch of the first
\* initialize is polling, every probe so far having failed, is answered in
\* the same step with the not-initialized error and makes no HTTP call; and
\* when that launch returns false the flag is not-initialized.
C19_RejectedDuringPolling ==
  /\ [][FirstLaunchPolling =>
          \A d \in (Len(dispatched) + 1)..Len(dispatched') :
            dispatched'[d].method = JStr(Method.query) =>
              /\ calls' = calls
              /\ \E k \in (Len(out) + 1)..Len(out') :
                   /\ outOf'[k] = d
                   /\ out'[k] = ErrorResponse(dispatched'[d].id, Code.NotInitialized,
                                              Msg.NotInitialized)]_vars
  /\ [][(FirstLaunchPolling /\ launches'[1].result = "false") => ~initialized']_vars

\* C20 as stated: docker-compose up is not issued a second time while an
\* earlier launch is still being polled: no two calls of
\* startDockerContainers that have spawned it are polling together.
C20_OneLaunchCommand ==
  \A l, m \in 1..Len(launches) :
    (l # m /\ launches[l].spawns > 0 /\ launches[l].pc = "poll") =>
      ~(launches[m].spawns > 0 /\ launches[m].pc = "poll")

----------------------------------------------------------------------------
(* The health probe *)

\* C21: a health probe completes with a boolean and never throws or rejects:
\* a network error, a timeout and a status that is not 2xx each make it
\* resolve to false, so the launch that met one goes on to spawn and poll (it
\* does not take the server for running, and it does not leave through its
\* catch block) and returns false only when its attempts are used up.
C21_ProbeResolvesBoolean ==
  /\ \A o \in ProbeOutcomes : checkASRGotRunning(o) \in BOOLEAN
  /\ \A l \in 1..Len(launches) :
       launches[l].seen \in {"status503", "error", "timeout"} =>
         /\ launches[l].result # "true"
         /\ launches[l].spawns = 1
         /\ launches[l].pc = "done" => launches[l].i = MaxAttempts

\* a launch goes on polling after a probe that timed out
C21_PollsAfterTimeout ==
  \E l \in 1..Len(launches) :
    /\ launches[l].seen = "timeout"
    /\ launches[l].pc = "poll"
    /\ launches[l].probes >= 2

----------------------------------------------------------------------------
(* Shutdown *)

Shutdowns == {d \in 1..Len(dispatched) : dispatched[d].method = JStr(Method.shutdown)}

\* C22 as stated: a shutdown request is answered with one success response
\* whose result is null and whose id is the id of the request, the stop
\* command is attempted for it whether it succeeds or fails, and from the
\* shutdown on initialized is false, as long as no initialize request is
\* handled after it.
C22_ShutdownAlwaysSucceeds ==
  \A d \in Shutdowns :
    /\ \E k \in 1..Len(out) : AnswersTo(d) = {k}
    /\ \A k \in AnswersTo(d) : out[k] = ResultResponse(dispatched[d].id, JNull)
    /\ \E n \in 1..Len(stops) : stops[n].by = d
    /\ (\A r \in (d + 1)..Len(dispatched) :
          dispatched[r].method # JStr(Method.initialize)) => ~initialized

----------------------------------------------------------------------------
(* Failures inside the handlers *)

\* the dispatches whose handler threw: queries without params handled while
\* initialized was true
Thrown ==
  {d \in Queries : dispatched[d].initialized /\ Throws(dispatched[d].params)}

\* C23 as stated: a failure inside a handler is answered with one
\* internal-error response (-32603) whose id is the id of the request that
\* caused it, and the messages that follow are still handled.
C23_FailureAnsweredWithId ==
  \A d \in Thrown :
    /\ \E k \in 1..Len(out) :
         /\ AnswersTo(d) = {k}
         /\ out[k] = ErrorResponse(dispatched[d].id, Code.Internal,
                       Msg.Internal \o TypeErrorMessage(dispatched[d].params, K.context))
    /\ wire = <<>> => Len(dispatched) = Len(sent)

----------------------------------------------------------------------------
(* Validation of the query text *)

\* the queries that passed the check of initialized and carry no text:
\* !query is true of them
Textless ==
  {d \in Queries : dispatched[d].initialized /\ ~Truthy(QueryOf(dispatched[d].params))}

\* C24 as stated: a query whose text is missing or empty is answered with
\* the invalid-params error (-32602) carrying the id of the request, and no
\* HTTP call is made for it.
C24_TextlessInvalidParams ==
  \A d \in Textless :
    /\ \E k \in 1..Len(out) :
         /\ AnswersTo(d) = {k}
         /\ IsError(out[k])
         /\ out[k].id = dispatched[d].id
         /\ out[k].error.code = Code.InvalidParams
    /\ dispatched[d].call = 0

----------------------------------------------------------------------------
(* Delivery to the backend *)

\* the HTTP calls made for dispatch d
CallsBy(d) == {c \in 1..Len(calls) : calls[c].by = d}

\* C25: each query dispatched causes at most one HTTP call, made with its
\* own query text, and nothing else causes one: a call that failed or timed
\* out stays the only call of its query.
C25_AtMostOneCall ==
  \A d \in 1..Len(dispatched) :
    /\ Cardinality(CallsBy(d)) <= (IF d \in Queries THEN 1 ELSE 0)
    /\ \A c \in CallsBy(d) :
         calls[c].data.query = QueryOf(dispatched[d].params)

\* a call timed out, its query was answered with more messages handled
\* after the query, and the call is still the only one made for the query
C25_TimedOutNotRetried ==
  \E c \in 1..Len(calls) :
    /\ calls[c].event.kind = "timeout"
    /\ AnswersTo(calls[c].by) # {}
    /\ Len(dispatched) > calls[c].by
    /\ CallsBy(calls[c].by) = {c}

----------------------------------------------------------------------------
(* Unknown methods *)

\* the method of dispatch d is none of the cases of the switch
UnknownMethod(all, d) ==
  all[d].method \notin {JStr(Method[m]) : m \in DOMAIN Method}

\* C26 as stated: a message whose method is unknown is answered with one
\* method-not-found error (-32601) that carries the id of the request and
\* names the method, and a step that handles only such messages changes
\* neither initialized, the session id, the launches, the HTTP calls nor the
\* state of the decoder.
C26_UnknownMethodAnswered ==
  /\ [](\A d \in 1..Len(dispatched) :
          UnknownMethod(dispatched, d) =>
            \E k \in 1..Len(out) :
              /\ AnswersTo(d) = {k}
              /\ out[k].id = dispatched[d].id
              /\ IsError(out[k])
              /\ out[k].error.code = Code.MethodNotFound
              /\ out[k].error.message = Msg.MethodNotFound \o ToStr(dispatched[d].method))
  /\ [][(/\ Len(dispatched') > Len(dispatched)
         /\ \A d \in (Len(dispatched) + 1)..Len(dispatched') :
              UnknownMethod(dispatched', d))
        => /\ UNCHANGED <<initialized, sessionId, launches, calls, stops>>
           /\ env.chunks = "whole" => UNCHANGED <<buffer, contentLength>>]_vars

----------------------------------------------------------------------------
(* The frames written *)

\* what a reader of the byte stream finds in bytes: one header that declares
\* n, then exactly n bytes, which are the UTF-8 bytes of json, and nothing
\* else
OneFrame(bytes, json) ==
  /\ HeaderAt(bytes, 1)
  /\ LET e == DigitRunEnd(bytes, Len(HeaderPrefix) + 1)
         body == Drop(bytes, (e - 1) + Len(HeaderEnd))
     IN  /\ Len(body) = ParseInt(SubSeq(bytes, Len(HeaderPrefix) + 1, e - 1))
         /\ body = Utf8Encode(json)

\* C27: every response is written as one frame, Content-Length: N, CRLF
\* CRLF and the JSON text of the response, where N is the number of bytes
\* of that text in UTF-8; a write holds nothing before or after its frame.
C27_ResponseFramedExactly ==
  [][\A response \in {out'[k] : k \in (Len(out) + 1)..Len(out')} :
       OneFrame(StdoutWrite(response), ResponseJson(response))]_vars

\* a response whose text has characters of more than one byte was written
C27_MultiByteWritten ==
  \E k \in 1..Len(out) : ByteLength(ResponseJson(out[k])) > Len(ResponseJson(out[k]))

----------------------------------------------------------------------------
(* The confidence of a result *)

\* the confidence field of the reply that response k was built from,
\* undefined when the reply has no asr_got_result or no confidence in it
ConfidenceGiven(k) == Prop(Prop(OwnReply(CallOf(k)), K.asr_got_result), K.confidence)

\* C28: the success response of a query carries the confidence of its
\* backend reply unchanged, in the same order, when the reply has one, and
\* [0,0,0,0] when the reply has no confidence or no asr_got_result at all.
C28_ConfidenceDefaulted ==
  \A k \in RepliedTo :
    IsResult(out[k]) =>
      out[k].result.confidence =
        IF ConfidenceGiven(k) = Undefined THEN DefaultConfidence ELSE ConfidenceGiven(k)

\* one query was answered from a reply whose asr_got_result has no
\* confidence, another from a reply with the confidence [1,2,3,4]
C28_OmittedAndGiven ==
  \E k1, k2 \in RepliedTo :
    /\ IsResult(out[k1]) /\ IsResult(out[k2])
    /\ Prop(OwnReply(CallOf(k1)), K.asr_got_result) # Undefined
    /\ ConfidenceGiven(k1) = Undefined
    /\ out[k1].result.confidence = DefaultConfidence
    /\ out[k2].result.confidence = JArr(<<JNum(1), JNum(2), JNum(3), JNum(4)>>)

----------------------------------------------------------------------------
(* The session id *)

\* the session ids the backend has issued: those of the 2xx replies that
\* settled a call and were parsed
Issued ==
  {id \in {Prop(OwnReply(c), K.session_id) :
             c \in {n \in 1..Len(calls) :
                      /\ calls[n].state = "settled"
                      /\ Outcomes[calls[n].event].ok}} : Truthy(id)}

\* C29: sessionId is null until the backend has issued a session id, and
\* from then on it is one of the ids the backend issued, whatever was handled
\* since: it is never set back to null and never holds another value.
C29_SessionNeverCleared ==
  IF Issued = {} THEN sessionId = JNull ELSE sessionId \in Issued

\* after a query result stored a session id, a response was written that
\* is an error or answers a request that is no query, and the id is still
\* in store
C29_KeptAcrossOperations ==
  \E k \in RepliedTo :
    /\ IsResult(out[k])
    /\ sessionId = out[k].result.sessionId
    /\ sessionId = Prop(OwnReply(CallOf(k)), K.session_id)
    /\ \E j \in (k + 1)..Len(out) : IsError(out[j]) \/ outOf[j] \notin Queries

----------------------------------------------------------------------------
(* The end of the process *)

\* C30 as stated: the process exits only on a signal or after a shutdown
\* request, and the stop command has been attempted before it exits: by the
\* handler of the signal, or by the handler of the shutdown request.
C30_ExitsOnlyAfterStop ==
  exited # "no" =>
    \/ /\ exited \in {"SIGINT", "SIGTERM"}
       /\ stops # <<>>
       /\ stops[Len(stops)].by = 0
    \/ /\ Shutdowns # {}
       /\ \E n \in 1..Len(stops) : stops[n].by \in Shutdowns

----------------------------------------------------------------------------
(* Queries in flight *)

\* C31 as stated: a pending query blocks nothing.  When a chunk brings the
\* rest of what the client wrote while a query is awaiting the backend,
\* every frame the client wrote has been decoded and dispatched after the
\* step, and every message the step dispatched that is neither a forwarded
\* query nor a cancellation is answered in the step with a response that
\* carries the id of the request.
C31_PendingQueryBlocksNothing ==
  [][(/\ \E c \in 1..Len(calls) : calls[c].state = "pending"
      /\ wire # <<>>
      /\ wire' = <<>>) =>
       /\ Len(decoded') = Len(sent)
       /\ Len(dispatched') = Len(sent)
       /\ \A d \in (Len(dispatched) + 1)..Len(dispatched') :
            (/\ dispatched'[d].call = 0
             /\ dispatched'[d].method # JStr(Method.cancelled)) =>
              \E k \in (Len(out) + 1)..Len(out') :
                /\ outOf'[k] = d
                /\ out'[k].id = dispatched'[d].id]_vars

\* C32: a query that arrives with the id of a query still in flight takes
\* the place of the earlier one: from then on the earlier request is never
\* answered, and the two requests have one response between them.
C32_LastWriteWins ==
  [][\A c1, c2 \in 1..Len(calls) :
       (/\ c1 < c2
        /\ calls[c1].state = "pending"
        /\ dispatched[calls[c1].by].id = dispatched[calls[c2].by].id) =>
         /\ \A k \in (Len(out) + 1)..Len(out') : outOf'[k] # calls[c1].by
         /\ Cardinality(AnswersTo(calls[c1].by) \cup AnswersTo(calls[c2].by)) <= 1]_vars

----------------------------------------------------------------------------
(* Extraction *)

\* C33: the reasoning trace of a success response lists the stages of the
\* reply in their order, one entry per stage: each entry starts with the
\* stage number, the name and the summary (their defaults where the reply
\* has none) and gives the names and values of the metrics of the stage; a
\* reply without trace gives the fixed text.
C33_TraceListsStages ==
  \A k \in RepliedTo : IsResult(out[k]) =>
    LET trace == Prop(AsrGotResult(OwnReply(CallOf(k))), K.reasoning_trace)
        text == out[k].result.reasoningTrace
        Header(stage) ==
          <<"S","t","a","g","e"," ">> \o ToStr(OrElse(Prop(stage, K.stage), JStr(<<"?">>)))
            \o <<":", " ">> \o ToStr(OrElse(Prop(stage, K.name), JStr(<<"U","n","k","n","o","w","n"," ","S","t","a","g","e">>)))
            \o <<Ch.LF>> \o ToStr(OrElse(Prop(stage, K.summary), JStr(<<"N","o"," ","s","u","m","m","a","r","y"," ","a","v","a","i","l","a","b","l","e",".">>)))
        Starts(i) == {j \in 1..Len(text) : StartsWithAt(text, j, Header(trace.v[i]))}
        End(i) == IF i < Len(trace.v) THEN Min(Starts(i + 1)) - 1 ELSE Len(text)
        Within(i, piece) ==
          \E j \in (Min(Starts(i)) + Len(Header(trace.v[i])))..End(i) :
            StartsWithAt(text, j, piece) /\ j + Len(piece) - 1 <= End(i)
        metrics(i) == Prop(trace.v[i], <<"m","e","t","r","i","c","s">>)
    IN  IF ~Truthy(trace) THEN text = <<"N","o"," ","r","e","a","s","o","n","i","n","g"," ","t","r","a","c","e"," ","a","v","a","i","l","a","b","l","e",".">>
        ELSE /\ \A i \in 1..Len(trace.v) : Starts(i) # {}
             /\ \A i \in 1..(Len(trace.v) - 1) : Min(Starts(i)) < Min(Starts(i + 1))
             /\ Cardinality({j \in 1..Len(text) : StartsWithAt(text, j, <<"S","t","a","g","e"," ">>)})
                  = Len(trace.v)
             /\ \A i \in 1..Len(trace.v) :
                  metrics(i).t = "obj" =>
                    \A name \in DOMAIN metrics(i).v :
                      Within(i, name) /\ Within(i, ToStr(metrics(i).v[name]))

\* C34: a 2xx reply whose body is a JSON object is answered with a success
\* response whichever optional members it lacks: the response text is the
\* content of the first choice, or empty; the trace is the fixed text when
\* asr_got_result or reasoning_trace is missing; the confidence is
\* [0,0,0,0] when missing; and without session_id the response carries the
\* session id that was in store.
C34_MissingFieldsDefaulted ==
  \A k \in 1..Len(out) :
    (/\ CallOf(k) # 0
     /\ calls[CallOf(k)].event.kind = "end"
     /\ calls[CallOf(k)].event.status \in 200..299
     /\ JsonParse(ReplyBodies[calls[CallOf(k)].event.body]).ok
     /\ OwnReply(CallOf(k)).t = "obj"
     /\ \A member \in {K.choices, K.asr_got_result, K.session_id} :
          Prop(OwnReply(CallOf(k)), member).t \in {"undefined", "arr", "obj", "str"}
     /\ Prop(AsrGotResult(OwnReply(CallOf(k))), K.reasoning_trace).t \in {"undefined", "arr"}) =>
      LET reply == OwnReply(CallOf(k))
          choices == Prop(reply, K.choices)
          content ==
            IF choices.t = "arr" /\ Len(choices.v) > 0
            THEN Prop(Prop(choices.v[1], K.message), K.content)
            ELSE Undefined
          result == Prop(reply, K.asr_got_result)
      IN  /\ IsResult(out[k])
          /\ out[k].id = dispatched[outOf[k]].id
          /\ out[k].result.response = IF content = Undefined THEN JStr(<<>>) ELSE content
          /\ Prop(result, K.reasoning_trace) = Undefined =>
               out[k].result.reasoningTrace = <<"N","o"," ","r","e","a","s","o","n","i","n","g"," ","t","r","a","c","e"," ","a","v","a","i","l","a","b","l","e",".">>
          /\ Prop(result, K.confidence) = Undefined =>
               out[k].result.confidence = JArr(<<JNum(0), JNum(0), JNum(0), JNum(0)>>)
          /\ Prop(reply, K.session_id) = Undefined =>
               out[k].result.sessionId = StoredBefore(k)
          /\ (k = Len(out) /\ Prop(reply, K.session_id) = Undefined) =>
               sessionId = StoredBefore(k)

\* the reply {} , which lacks every optional member, has been answered with
\* a success response made of the defaults
C34_EmptyReplyAnswered ==
  \E k \in RepliedTo :
    /\ calls[CallOf(k)].event.body = "empty"
    /\ IsResult(out[k])
    /\ out[k].result.response = JStr(<<>>)
    /\ out[k].result.sessionId = JNull

\* C35: the deadline of the HTTP call of a query is 60000 ms when the
\* request names no timeout, and the timeout the request names when that
\* lies in 10000..300000.
C35_DeadlineFromCaller ==
  \A c \in 1..Len(calls) :
    LET given == Prop(dispatched[calls[c].by].params, <<"t","i","m","e","o","u","t">>)
    IN  /\ given = Undefined => calls[c].timeout = 60000
        /\ (given.t = "num" /\ given.e = 0 /\ given.v \in 10000..300000) => calls[c].timeout = given.v

----------------------------------------------------------------------------
(* Every request is answered *)

\* C36 as stated: if time and again no HTTP call is pending (each call
\* ends in a response that is complete, a transport error or a timeout),
\* then from some state on every request with an id and a method that the
\* client wrote has exactly one response, as long as the process runs: as
\* many responses answer the requests with one payload as the client wrote
\* requests with it.  The requests are the payloads that hold an id and a
\* method, and the responses to one are those that answer a dispatch of the
\* message it holds.
C36_EventuallyAnswered ==
  LET message(p) == JsonParse(Payloads[p]).val
      requests ==
        {p \in DOMAIN Payloads :
           /\ ValidJson(p)
           /\ IdOf(p) # Undefined
           /\ Prop(message(p), K.method) # Undefined}
      responsesTo(p) ==
        {k \in 1..Len(out) :
           /\ dispatched[outOf[k]].id = IdOf(p)
           /\ dispatched[outOf[k]].method = Prop(message(p), K.method)
           /\ dispatched[outOf[k]].params = Prop(message(p), K.params)}
  IN
  ([]<>(\A c \in 1..Len(calls) : calls[c].state = "settled")) =>
    <>[](\/ exited # "no"
         \/ \A p \in requests :
              Cardinality(responsesTo(p)) =
                Cardinality({i \in 1..Len(sent) : sent[i] = p}))

----------------------------------------------------------------------------
(* The state a query leaves *)

\* C37: a step that handles one query and answers it with an error for one
\* of these causes leaves initialized and sessionId as they were: the
\* rejection -32002 of a query handled while initialized is false, the
\* rejection -32602 of a query without text, and the error written when the
\* call of a forwarded query has ended with a transport error, a status
\* that is not 2xx, a body that is no JSON or a timeout.
C37_ErrorLeavesState ==
  [][(/\ Len(out') = Len(out) + 1
      /\ Len(dispatched') <= Len(dispatched) + 1
      /\ IsError(out'[Len(out')])
      /\ dispatched'[outOf'[Len(out')]].method = JStr(Method.query)
      /\ \/ out'[Len(out')].error.code \in {Code.NotInitialized, Code.InvalidParams}
         \/ /\ dispatched'[outOf'[Len(out')]].call # 0
            /\ ~Outcomes[calls'[dispatched'[outOf'[Len(out')]].call].event].ok) =>
       /\ initialized' = initialized
       /\ sessionId' = sessionId]_vars

\* a query whose call timed out was answered with an error while a session
\* id was in store, and the session id and the flag are still there
C37_FailedWithSessionKept ==
  /\ initialized
  /\ sessionId # JNull
  /\ \E k \in 1..Len(out) :
       /\ IsError(out[k])
       /\ CallOf(k) # 0
       /\ calls[CallOf(k)].event.kind = "timeout"
       /\ \E j \in 1..(k - 1) :
            /\ IsResult(out[j])
            /\ CallOf(j) # 0
            /\ out[j].result.sessionId = sessionId

\* C38: the sessionId of the success response of a query is the session_id
\* of the reply to that query when the reply holds a non-empty one, and else
\* the session id stored by the latest reply handled before (null when
\* there is none); the value is stored and reported in one step, so that
\* the store holds the sessionId of the response written last.
C38_SessionIdOfResponse ==
  \A k \in RepliedTo : IsResult(out[k]) =>
    LET own == Prop(OwnReply(CallOf(k)), K.session_id)
    IN  /\ Truthy(own) => out[k].result.sessionId = own
        /\ ~Truthy(own) => out[k].result.sessionId = StoredBefore(k)
        /\ k = Len(out) => sessionId = out[k].result.sessionId

\* a query whose reply holds no session_id was answered with the session id
\* that the reply to a later request had stored before
C38_ReportsStoredId ==
  \E k1, k2 \in RepliedTo :
    /\ k1 < k2
    /\ outOf[k1] > outOf[k2]
    /\ IsResult(out[k1]) /\ IsResult(out[k2])
    /\ Truthy(Prop(OwnReply(CallOf(k1)), K.session_id))
    /\ Prop(OwnReply(CallOf(k2)), K.session_id) = Undefined
    /\ out[k2].result.sessionId = Prop(OwnReply(CallOf(k1)), K.session_id)

----------------------------------------------------------------------------
(* The decoder between chunks *)

\* C39: when onStdinData has returned, the decoder either seeks a header
\* (contentLength is -1) in a buffer that holds no complete header, or
\* accumulates a payload (contentLength >= 0) of which the buffer holds
\* fewer units than declared.
C39_DecoderAtRest ==
  \/ contentLength = -1 /\ ~HeaderMatch(buffer).found
  \/ contentLength >= 0 /\ Len(buffer) < contentLength

\* a payload has been extracted and the decoder is left with a part of the
\* payload of the next frame
C39_PartOfPayload ==
  /\ decoded # <<>>
  /\ contentLength > 0
  /\ Len(buffer) > 0
  /\ env.faults = {}
  /\ \A i \in 1..Len(sent) : sent[i] = "ping"
====
